---- MODULE Spec2Model ----
(***************************************************************************)
(* A model of database/core.py: DatabaseManager, its psycopg2              *)
(* SimpleConnectionPool, the connections' transactional state and the      *)
(* committed database content.                                             *)
(*                                                                         *)
(* Every method is a sequence of steps of one caller (pc[c] is the place   *)
(* of caller c in the method it is running, "idle" between calls).  The    *)
(* driver can fail at the places where the code handles a failure:         *)
(*   - opening a new connection in getconn() (OperationalError),           *)
(*   - the catalog query, the SET and the commit of _set_schema,           *)
(*   - a caller's statement, and the commit after it,                      *)
(*   - the file system calls of export_table.                              *)
(* conn.rollback() and conn.close() do not fail, as the code assumes.      *)
(* When a call is over (pc[c] = "done"), Ret(c), trace[c] and pre[c] hold  *)
(* what it returned or raised, what it did, and the state it started from. *)
(***************************************************************************)
EXTENDS Integers, Sequences, FiniteSets, TLC

\* ------------------------------------------------------------- bounds
NumCallers == 2
max_connections == 2
MaxRows == 2
MaxStmts == 2
MaxRetries == 3
MaxDelay == 2

\* ------------------------------------------------- program constants
minconn == 1
DefaultRetries == 3
DefaultDelay == 1
DefaultMaxConnections == 5

SCHEMA_NAME == "jec"
DefaultPath == "$user"
Schemas == {"jec", "public", "ghost"}
ExistingSchemas == {"jec", "public"}
Tables == {"usuarios", "nonexistent_table"}
ExistingTables == {"usuarios"}

Callers == 1..NumCallers
\* connection objects: as many as the pool holds, and one more for every
\* further caller
MaxConnId == max_connections + NumCallers - 1
ConnIds == 1..MaxConnId
NoConn == 0

\* Statements a caller can pass: an INSERT, an INSERT .. RETURNING id, a
\* DELETE of one row, a SELECT of the rows, the query of get_database_info,
\* and a statement the server rejects (UPDATE nonexistent_table ..).
QueryStmts == {"insert", "insert_returning", "delete", "select", "bad"}
InfoStmt == "info"
TxStmts == {"insert", "select", "bad"}

VARIABLES
    connection_pool, \* DatabaseManager.connection_pool: "None" or "pool"
    maxconn,         \* connection_pool.maxconn
    ctor,            \* the construction: its argument, attempts and outcome
    closed,          \* connection_pool.closed
    idle,            \* connection_pool._pool: the idle connections
    used,            \* connection_pool._used: the checked-out connections
    conns,           \* the state of every connection object
    db,              \* committed rows of the table
    current_schema,  \* DatabaseManager.current_schema
    outfile,         \* the lines of the file the running export_table writes
    pc, op, loc,     \* per caller: place, running method, local variables
    pre, trace,      \* per caller: pre-call snapshot, what was done
    usuario,         \* the Usuario model object and the method it is running
    menu             \* main() and MenuSystem: the place in the menus

vars == <<connection_pool, maxconn, ctor, closed, idle, used, conns, db,
          current_schema, outfile, pc, op, loc, pre, trace, usuario, menu>>

\* what a step inside a method of a constructed manager leaves alone: the
\* manager's pool attribute, and the objects of the callers above it
mgrvars == <<connection_pool, maxconn, ctor, usuario, menu>>

\* ------------------------------------------------------- connections
FreshConn ==
    [open |-> TRUE, path |-> DefaultPath, ppath |-> DefaultPath,
     status |-> "idle", delta |-> 0]

ClosedConn ==
    [open |-> FALSE, path |-> DefaultPath, ppath |-> DefaultPath,
     status |-> "idle", delta |-> 0]

\* conn.rollback(): the open transaction's writes and SETs are undone.
ConnRollback(r) ==
    [r EXCEPT !.ppath = r.path, !.status = "idle", !.delta = 0]

\* conn.commit(): the connection's side; the rows go to db (DbCommit).
ConnCommit(r) ==
    [r EXCEPT !.path = r.ppath, !.status = "idle", !.delta = 0]

DbCommit(r) == db + r.delta

\* mutant: the SET statement does not reach the connection
ConnSetPathLost(r, name) == r

\* SET search_path TO name, in the open transaction
ConnSetPath(r, name) == [r EXCEPT !.ppath = name]

\* rows the connection sees: committed rows and its own open transaction
Visible(r) == db + r.delta

\* current_schema() of the server for a search path
CurrentSchemaOf(path) == IF path = DefaultPath THEN "public" ELSE path

Rows(n) == [i \in 1..n |-> i]

\* cursor.execute(stmt): does the server raise a DatabaseError
StmtFails(stmt) == stmt = "bad"

\* str(e) of the DatabaseError the server raises for the statement
ServerMessage(stmt) == "relation nonexistent_table does not exist"

\* cursor.description is not None after the statement
HasDescription(stmt) == stmt \in {"insert_returning", "select", "info"}

\* what the statement adds to the rows of the open transaction
StmtDelta(stmt, r) ==
    CASE stmt \in {"insert", "insert_returning"} -> 1
      [] stmt = "delete" -> IF Visible(r) > 0 THEN -1 ELSE 0
      [] OTHER -> 0

\* cursor.fetchall() after the statement, on the connection before it
StmtRows(stmt, r) ==
    CASE stmt = "select" -> Rows(Visible(r))
      [] stmt = "insert_returning" -> <<Visible(r) + 1>>
      [] stmt = "info" -> <<CurrentSchemaOf(r.ppath)>>
      [] OTHER -> <<>>

StmtColumns(stmt) ==
    CASE stmt = "info" -> <<"current_schema">>
      [] HasDescription(stmt) -> <<"id">>
      [] OTHER -> <<>>

\* the connection after a statement that succeeded / that the server rejected
ConnExecOk(stmt, r) ==
    [r EXCEPT !.status = "intrans", !.delta = r.delta + StmtDelta(stmt, r)]

ConnExecFail(r) == [r EXCEPT !.status = "inerror"]

\* ------------------------------------------------------------- pool
Available == maxconn - Cardinality(used)

SmallestFree == CHOOSE k \in ConnIds : ~conns[k].open /\ \A j \in 1..(k - 1) : conns[j].open

\* putconn(conn) on an open pool: kept (rolled back) while the pool holds
\* fewer than minconn idle connections, closed otherwise
PutIdle(k) ==
    IF Len(idle) < minconn /\ conns[k].open THEN Append(idle, k) ELSE idle

PutConns(k) ==
    IF Len(idle) < minconn
    THEN [conns EXCEPT ![k] = IF @.open THEN ConnRollback(@) ELSE @]
    ELSE [conns EXCEPT ![k] = ClosedConn]

\* ------------------------------------------------------ bookkeeping
Ev(e, n, s) == [e |-> e, n |-> n, s |-> s]

NoOp ==
    [name |-> "none", stmts |-> <<>>, fetch |-> FALSE, autocommit |-> FALSE,
     schema |-> "", table |-> "", retries |-> 0, delay |-> 0]

NoRet ==
    [kind |-> "none", exc |-> "none", none |-> TRUE, cols |-> <<>>,
     rows |-> <<>>, bool |-> FALSE, conn |-> NoConn]

RetNone == [NoRet EXCEPT !.kind = "done"]
RetPair(cols, rows) ==
    [NoRet EXCEPT !.kind = "done", !.none = FALSE, !.cols = cols, !.rows = rows]
RetBool(b) == [NoRet EXCEPT !.kind = "done", !.none = FALSE, !.bool = b]
RetConn(k) == [NoRet EXCEPT !.kind = "done", !.none = FALSE, !.conn = k]
RetRaise(e) == [NoRet EXCEPT !.kind = "raise", !.exc = e]

NoLoc ==
    [conn |-> NoConn, gconn |-> NoConn, sconn |-> NoConn, attempt |-> 0,
     name |-> "", from |-> "", i |-> 1, exc |-> "none", res |-> RetNone,
     msg |-> <<>>, cause |-> <<>>, rows |-> <<>>]

Snapshot ==
    [avail |-> Available, db |-> db, cur |-> current_schema, closed |-> closed,
     paths |-> [k \in ConnIds |-> conns[k].ppath], idle |-> idle, used |-> used,
     after |-> ""]

NoPre ==
    [avail |-> 0, db |-> 0, cur |-> "", closed |-> FALSE,
     paths |-> [k \in ConnIds |-> ""], idle |-> <<>>, used |-> {}, after |-> ""]

\* the dict a caller passes to Usuario.create or Usuario.update: its keys,
\* and data.get("tipo")
NoTipo == "None"
NoData == [keys |-> {}, tipo |-> NoTipo]

\* no Usuario object yet
NoUsuario ==
    [at |-> "absent", table_name |-> "", created_in |-> "", method |-> "",
     data |-> NoData, id |-> 0, res |-> RetNone, exc |-> "none", calls |-> 0,
     target |-> ""]

\* main() has not started
NoMenu ==
    [at |-> "off", choice |-> "", sub |-> "", arg |-> "", probe |-> "none",
     called |-> FALSE, value |-> "", exc |-> "none", why |-> "", closeall |-> 0]

\* DatabaseManager(max_connections) has returned: a pool of minconn open
\* connections
NewCtor(arg, n, e) == [arg |-> arg, attempts |-> n, exc |-> e]

Init ==
    /\ connection_pool = "pool"
    /\ maxconn = max_connections
    /\ ctor = NewCtor(max_connections, 1, "none")
    /\ closed = FALSE
    /\ idle = <<1>>
    /\ used = {}
    /\ conns = [k \in ConnIds |-> IF k = 1 THEN FreshConn ELSE ClosedConn]
    /\ db \in 0..MaxRows
    /\ current_schema = SCHEMA_NAME
    /\ outfile = <<>>
    /\ pc = [c \in Callers |-> "idle"]
    /\ op = [c \in Callers |-> NoOp]
    /\ loc = [c \in Callers |-> NoLoc]
    /\ pre = [c \in Callers |-> NoPre]
    /\ trace = [c \in Callers |-> <<>>]
    /\ usuario = NoUsuario
    /\ menu = NoMenu

Goto(c, p) == pc' = [pc EXCEPT ![c] = p]
Log(c, ev) == trace' = [trace EXCEPT ![c] = Append(@, ev)]
Log2(c, e1, e2) == trace' = [trace EXCEPT ![c] = Append(Append(@, e1), e2)]

HasEv(c, e) == \E i \in DOMAIN trace[c] : trace[c][i].e = e
CountEv(c, e) == Cardinality({i \in DOMAIN trace[c] : trace[c][i].e = e})

\* a call starts: the method and its arguments, fresh locals
Begin(c, o, p) ==
    /\ connection_pool = "pool"
    /\ pc[c] = "idle"
    /\ op' = [op EXCEPT ![c] = o]
    /\ loc' = [loc EXCEPT ![c] = NoLoc]
    /\ pre' = [pre EXCEPT ![c] = [Snapshot EXCEPT !.after = pre[c].after]]
    /\ trace' = [trace EXCEPT ![c] = <<>>]
    /\ Goto(c, p)
    /\ UNCHANGED <<mgrvars, closed, idle, used, conns, db, current_schema, outfile>>

\* ------------------------------------------------- control transfer
\* where `conn = self.get_connection()` continues in the running method
AfterAcquire(o) ==
    CASE o.name \in {"execute_query", "get_database_info"} -> "q_exec"
      [] o.name = "execute_transaction" -> "t_exec"
      [] o.name = "export_table" -> "x_open"
      [] o.name = "set_schema" -> "ss_check"
      [] OTHER -> "g_release"

\* the handler of the running method that an exception e raised by
\* get_connection() reaches
AfterGcRaise(o, e) ==
    CASE o.name \in {"execute_query", "get_database_info"} ->
             IF e = "DatabaseError" THEN "q_except" ELSE "q_finally"
      [] o.name = "execute_transaction" ->
             IF e = "DatabaseError" THEN "t_except" ELSE "t_finally"
      [] o.name = "export_table" -> "x_except"
      [] o.name = "set_schema" ->
             IF e = "DatabaseError" THEN "s_except" ELSE "s_finally"
      [] OTHER -> "done"

\* the method's locals once get_connection() has returned the connection:
\* set_schema goes on to call _set_schema(conn, schema_name)
LocAfterAcquire(c) ==
    CASE op[c].name = "set_schema" ->
             [loc[c] EXCEPT !.conn = loc[c].gconn, !.sconn = loc[c].gconn,
                            !.name = op[c].schema, !.from = "set"]
      [] op[c].name = "get_connection" ->
             [loc[c] EXCEPT !.conn = loc[c].gconn, !.res = RetConn(loc[c].gconn)]
      [] OTHER -> [loc[c] EXCEPT !.conn = loc[c].gconn]

\* -------------------------------------------------- get_connection
\* mutant: an exhausted pool hands out a connection that is checked out
GcGetconnPoolErrorShares(c) ==
    /\ pc[c] = "gc_getconn"
    /\ closed \/ (idle = <<>> /\ Cardinality(used) = maxconn)
    /\ IF closed
       THEN /\ loc' = [loc EXCEPT ![c].exc = "PoolError"]
            /\ Goto(c, AfterGcRaise(op[c], "PoolError"))
            /\ Log(c, Ev("getconn_error", loc[c].attempt + 1, "PoolError"))
       ELSE /\ loc' = [loc EXCEPT ![c] = [loc[c] EXCEPT
                           !.gconn = CHOOSE k \in used : TRUE,
                           !.sconn = CHOOSE k \in used : TRUE,
                           !.name = current_schema, !.from = "gc"]]
            /\ Goto(c, "ss_check")
            /\ Log(c, Ev("getconn", CHOOSE k \in used : TRUE, "pooled"))
    /\ UNCHANGED <<mgrvars, closed, idle, used, conns, db, current_schema, outfile, op, pre>>

\* mutant: get_connection catches the PoolError and tries again
GcGetconnPoolErrorRetried(c) ==
    /\ pc[c] = "gc_getconn"
    /\ closed \/ (idle = <<>> /\ Cardinality(used) = maxconn)
    /\ Log(c, Ev("getconn_error", loc[c].attempt + 1, "PoolError"))
    /\ Goto(c, "gc_failed")
    /\ UNCHANGED <<mgrvars, closed, idle, used, conns, db, current_schema, outfile, op, loc, pre>>

\* getconn() on a closed or exhausted pool raises PoolError, which is no
\* OperationalError or InterfaceError: it leaves get_connection at once
GcGetconnPoolError(c) ==
    /\ pc[c] = "gc_getconn"
    /\ closed \/ (idle = <<>> /\ Cardinality(used) = maxconn)
    /\ loc' = [loc EXCEPT ![c].exc = "PoolError"]
    /\ Goto(c, AfterGcRaise(op[c], "PoolError"))
    /\ Log(c, Ev("getconn_error", loc[c].attempt + 1, "PoolError"))
    /\ UNCHANGED <<mgrvars, closed, idle, used, conns, db, current_schema, outfile, op, pre>>

\* mutant: get_connection applies the configured schema, not the recorded one
GcSchemaCallConfigured(c, k) ==
    [loc[c] EXCEPT !.gconn = k, !.sconn = k, !.name = SCHEMA_NAME, !.from = "gc"]

\* the arguments of self._set_schema(conn, self.current_schema)
GcSchemaCall(c, k) ==
    [loc[c] EXCEPT !.gconn = k, !.sconn = k, !.name = current_schema, !.from = "gc"]

\* getconn() hands out the idle connection; autocommit off; _set_schema is called
GcGetconnPooled(c) ==
    /\ pc[c] = "gc_getconn"
    /\ ~closed /\ idle # <<>>
    /\ LET k == idle[Len(idle)] IN
        /\ idle' = SubSeq(idle, 1, Len(idle) - 1)
        /\ used' = used \cup {k}
        /\ loc' = [loc EXCEPT ![c] = GcSchemaCall(c, k)]
        /\ Log(c, Ev("getconn", k, "pooled"))
    /\ Goto(c, "ss_check")
    /\ UNCHANGED <<mgrvars, closed, conns, db, current_schema, outfile, op, pre>>

\* getconn() opens a new connection, the pool holding no idle one
GcGetconnConnect(c) ==
    /\ pc[c] = "gc_getconn"
    /\ ~closed /\ idle = <<>> /\ Cardinality(used) < maxconn
    /\ LET k == SmallestFree IN
        /\ conns' = [conns EXCEPT ![k] = FreshConn]
        /\ used' = used \cup {k}
        /\ loc' = [loc EXCEPT ![c] = GcSchemaCall(c, k)]
        /\ Log(c, Ev("getconn", k, "new"))
    /\ Goto(c, "ss_check")
    /\ UNCHANGED <<mgrvars, closed, idle, db, current_schema, outfile, op, pre>>

\* mutant: the connection that could not be opened keeps its place in the pool
GcGetconnConnectFailsKeepsSlot(c) ==
    /\ pc[c] = "gc_getconn"
    /\ ~closed /\ idle = <<>> /\ Cardinality(used) < maxconn
    /\ used' = used \cup {SmallestFree}
    /\ Log(c, Ev("attempt_failed", loc[c].attempt + 1, "OperationalError"))
    /\ Goto(c, "gc_failed")
    /\ UNCHANGED <<mgrvars, closed, idle, conns, db, current_schema, outfile, op, loc, pre>>

\* opening the new connection fails: OperationalError, caught at line 73
GcGetconnConnectFails(c) ==
    /\ pc[c] = "gc_getconn"
    /\ ~closed /\ idle = <<>> /\ Cardinality(used) < maxconn
    /\ Log(c, Ev("attempt_failed", loc[c].attempt + 1, "OperationalError"))
    /\ Goto(c, "gc_failed")
    /\ UNCHANGED <<mgrvars, closed, idle, used, conns, db, current_schema, outfile, op, loc, pre>>

\* mutant: the same wait after every failed attempt
RetryWaitConstant(delay, attempt) == delay

\* the wait before the next attempt: sleep(delay * (attempt + 1))
RetryWait(delay, attempt) == delay * (attempt + 1)

\* the last attempt failed: ConnectionError("... after {retries} attempts")
GcExhausted(c) ==
    /\ pc[c] = "gc_failed"
    /\ loc[c].attempt = op[c].retries - 1
    /\ loc' = [loc EXCEPT ![c].exc = "ConnectionError"]
    /\ Log(c, Ev("raise_after_attempts", op[c].retries, "ConnectionError"))
    /\ Goto(c, AfterGcRaise(op[c], "ConnectionError"))
    /\ UNCHANGED <<mgrvars, closed, idle, used, conns, db, current_schema, outfile, op, pre>>

GcSleepRetry(c) ==
    /\ pc[c] = "gc_failed"
    /\ loc[c].attempt # op[c].retries - 1
    /\ Log(c, Ev("sleep", RetryWait(op[c].delay, loc[c].attempt), ""))
    /\ loc' = [loc EXCEPT ![c].attempt = @ + 1]
    /\ Goto(c, "gc_getconn")
    /\ UNCHANGED <<mgrvars, closed, idle, used, conns, db, current_schema, outfile, op, pre>>

\* ----------------------------------------------------- _set_schema
\* mutant: _set_schema raises without conn.rollback()
SsRaiseNoRollback(c, r, why) ==
    /\ conns' = [conns EXCEPT ![loc[c].sconn] = r]
    /\ loc' = [loc EXCEPT ![c].exc = "DatabaseError",
                           ![c].msg = <<"Schema change failed: ", why>>]
    /\ Goto(c, IF loc[c].from = "gc" THEN AfterGcRaise(op[c], "DatabaseError")
               ELSE "s_except")
    /\ Log(c, Ev(why, loc[c].sconn, loc[c].name))
    /\ UNCHANGED <<mgrvars, closed, idle, used, db, current_schema, outfile, op, pre>>

\* _set_schema raises DatabaseError after conn.rollback(): inside
\* get_connection it passes the except clause of line 73 and reaches the
\* method's handler; called by set_schema it reaches set_schema's handler
SsRaise(c, r, why) ==
    /\ conns' = [conns EXCEPT ![loc[c].sconn] = ConnRollback(r)]
    /\ loc' = [loc EXCEPT ![c].exc = "DatabaseError",
                           ![c].msg = <<"Schema change failed: ", why>>]
    /\ Goto(c, IF loc[c].from = "gc" THEN AfterGcRaise(op[c], "DatabaseError")
               ELSE "s_except")
    /\ Log2(c, Ev(why, loc[c].sconn, loc[c].name), Ev("rollback", loc[c].sconn, "_set_schema"))
    /\ UNCHANGED <<mgrvars, closed, idle, used, db, current_schema, outfile, op, pre>>

\* the catalog query finds the schema
SsCheckFound(c) ==
    /\ pc[c] = "ss_check"
    /\ loc[c].name \in ExistingSchemas
    /\ conns' = [conns EXCEPT ![loc[c].sconn].status = "intrans"]
    /\ Goto(c, "ss_set")
    /\ UNCHANGED <<mgrvars, closed, idle, used, db, current_schema, outfile, op, loc, pre, trace>>

\* mutant: the result of the catalog query is not looked at
SsCheckMissingIgnored(c) ==
    /\ pc[c] = "ss_check"
    /\ loc[c].name \notin ExistingSchemas
    /\ conns' = [conns EXCEPT ![loc[c].sconn].status = "intrans"]
    /\ Goto(c, "ss_set")
    /\ UNCHANGED <<mgrvars, closed, idle, used, db, current_schema, outfile, op, loc, pre, trace>>

\* the catalog query finds nothing: ValueError, wrapped at line 103
SsCheckMissing(c) ==
    /\ pc[c] = "ss_check"
    /\ loc[c].name \notin ExistingSchemas
    /\ SsRaise(c, conns[loc[c].sconn], "schema_missing")

\* the catalog query itself fails
SsCheckFault(c) ==
    /\ pc[c] = "ss_check"
    /\ SsRaise(c, conns[loc[c].sconn], "catalog_query_failed")

\* SET search_path TO name; conn.commit(); self.current_schema = schema_name;
\* then the caller goes on
SsApplyOk(c) ==
    /\ pc[c] = "ss_set"
    /\ conns' = [conns EXCEPT ![loc[c].sconn] = ConnCommit(ConnSetPath(@, loc[c].name))]
    /\ db' = DbCommit(conns[loc[c].sconn])
    /\ current_schema' = loc[c].name
    /\ Log2(c, Ev("set_path", loc[c].sconn, loc[c].name),
               Ev("commit", loc[c].sconn, "_set_schema"))
    /\ IF loc[c].from = "gc"
       THEN /\ loc' = [loc EXCEPT ![c] = LocAfterAcquire(c)]
            /\ Goto(c, AfterAcquire(op[c]))
       ELSE /\ loc' = [loc EXCEPT ![c].res = RetBool(TRUE)]
            /\ Goto(c, "s_finally")
    /\ UNCHANGED <<mgrvars, closed, idle, used, outfile, op, pre>>

\* the SET statement fails
SsSetFault(c) ==
    /\ pc[c] = "ss_set"
    /\ SsRaise(c, conns[loc[c].sconn], "set_failed")

\* the SET is done and conn.commit() fails
SsCommitFault(c) ==
    /\ pc[c] = "ss_set"
    /\ SsRaise(c, ConnSetPath(conns[loc[c].sconn], loc[c].name), "commit_failed")

\* ------------------------------------- except / finally of a method
\* the text of the RuntimeError a method raises for the error e it caught:
\* execute_query and execute_transaction pass a plain string, whose {e} is
\* not replaced; export_table and set_schema pass an f-string
ErrorText(name, e) ==
    CASE name \in {"execute_query", "get_database_info"} -> <<"Database error: {e}">>
      [] name = "execute_transaction" -> <<"Transaction failed: {e}">>
      [] name = "export_table" -> <<"Error exporting table: ">> \o e
      [] OTHER -> <<"Error setting schema: ">> \o e

\* mutant: the handler raises without conn.rollback()
ExceptStepNoRollback(c, from, to, rollback) ==
    /\ pc[c] = from
    /\ loc' = [loc EXCEPT ![c].exc = "RuntimeError", ![c].cause = loc[c].msg,
                           ![c].msg = ErrorText(op[c].name, loc[c].msg)]
    /\ Goto(c, to)
    /\ UNCHANGED <<mgrvars, closed, idle, used, conns, db, current_schema, outfile, op, pre, trace>>

\* except DatabaseError: if conn: conn.rollback(); raise RuntimeError(..) from e
ExceptStep(c, from, to, rollback) ==
    /\ pc[c] = from
    /\ IF rollback /\ loc[c].conn # NoConn
       THEN /\ conns' = [conns EXCEPT ![loc[c].conn] = ConnRollback(@)]
            /\ Log(c, Ev("rollback", loc[c].conn, op[c].name))
       ELSE UNCHANGED <<conns, trace>>
    /\ loc' = [loc EXCEPT ![c].exc = "RuntimeError", ![c].cause = loc[c].msg,
                           ![c].msg = ErrorText(op[c].name, loc[c].msg)]
    /\ Goto(c, to)
    /\ UNCHANGED <<mgrvars, closed, idle, used, db, current_schema, outfile, op, pre>>

\* finally: if conn: self.connection_pool.putconn(conn)
FinallyStep(c, from) ==
    /\ pc[c] = from
    /\ IF loc[c].conn = NoConn
       THEN UNCHANGED <<idle, used, conns, loc, trace>>
       ELSE IF closed
       THEN /\ loc' = [loc EXCEPT ![c].exc = "PoolError"]
            /\ UNCHANGED <<idle, used, conns, trace>>
       ELSE /\ idle' = PutIdle(loc[c].conn)
            /\ used' = used \ {loc[c].conn}
            /\ conns' = PutConns(loc[c].conn)
            /\ Log(c, Ev("putconn", loc[c].conn, ""))
            /\ UNCHANGED loc
    /\ Goto(c, "done")
    /\ UNCHANGED <<mgrvars, closed, db, current_schema, outfile, op, pre>>

\* get_database_info: dict(zip(result[0], result[1][0])) if result else {}
InfoDict(res) ==
    IF res.none THEN RetPair(<<>>, <<>>) ELSE RetPair(res.cols, <<res.rows[1]>>)

\* the call is over at "done": its value, or the exception that left it
Ret(c) ==
    CASE loc[c].exc # "none" -> RetRaise(loc[c].exc)
      [] op[c].name = "get_database_info" -> InfoDict(loc[c].res)
      [] OTHER -> loc[c].res

\* what the caller's next call comes after: an acquisition that gave up
LastOutcome(c) ==
    IF HasEv(c, "raise_after_attempts") THEN "acquisition_error" ELSE ""

\* the caller has its result and is ready for its next call
Forget(c) ==
    /\ pc[c] = "done"
    /\ op' = [op EXCEPT ![c] = NoOp]
    /\ loc' = [loc EXCEPT ![c] = NoLoc]
    /\ pre' = [pre EXCEPT ![c] = [NoPre EXCEPT !.after = LastOutcome(c)]]
    /\ trace' = [trace EXCEPT ![c] = <<>>]
    /\ outfile' = <<>>
    /\ Goto(c, "idle")
    /\ UNCHANGED <<mgrvars, closed, idle, used, conns, db, current_schema>>


\* ---------------------------------------------------- execute_query
QueryOp(stmt, fetch, autocommit) ==
    [NoOp EXCEPT !.name = "execute_query", !.stmts = <<stmt>>, !.fetch = fetch,
                 !.autocommit = autocommit, !.retries = DefaultRetries,
                 !.delay = DefaultDelay]

Inserts(stmts) ==
    Cardinality({i \in 1..Len(stmts) : stmts[i] \in {"insert", "insert_returning"}})

CallExecuteQuery(c) ==
    \E stmt \in QueryStmts, fetch \in BOOLEAN, autocommit \in BOOLEAN :
        /\ db + Inserts(<<stmt>>) <= MaxRows
        /\ Begin(c, QueryOp(stmt, fetch, autocommit), "gc_getconn")

\* get_database_info(): self.execute_query(query) with the defaults
CallGetDatabaseInfo(c) ==
    Begin(c, [QueryOp(InfoStmt, TRUE, TRUE) EXCEPT !.name = "get_database_info"],
          "gc_getconn")

\* mutant: `if fetch and results` - an empty result set is returned as None
QueryResultNoneWhenEmpty(fetch, stmt, r) ==
    IF fetch /\ HasDescription(stmt) /\ StmtRows(stmt, r) # <<>>
    THEN RetPair(StmtColumns(stmt), StmtRows(stmt, r))
    ELSE RetNone

\* what execute_query returns for the statement: the pair when fetch is
\* asked and the cursor has a description, None otherwise
QueryResult(fetch, stmt, r) ==
    IF fetch /\ HasDescription(stmt)
    THEN RetPair(StmtColumns(stmt), StmtRows(stmt, r))
    ELSE RetNone

\* mutant: the fetch path returns without its commit
QueryCommitsUnlessFetch(o) == o.autocommit /\ ~(o.fetch /\ HasDescription(o.stmts[1]))

\* does execute_query commit after a statement that succeeded
QueryCommits(o) == o.autocommit

QExecOk(c) ==
    /\ pc[c] = "q_exec"
    /\ ~StmtFails(op[c].stmts[1])
    /\ LET k == loc[c].conn
           stmt == op[c].stmts[1] IN
        /\ conns' = [conns EXCEPT ![k] = ConnExecOk(stmt, @)]
        /\ loc' = [loc EXCEPT ![c].res = QueryResult(op[c].fetch, stmt, conns[k])]
        /\ Log(c, Ev("execute", 1, stmt))
    /\ Goto(c, IF QueryCommits(op[c]) THEN "q_commit" ELSE "q_finally")
    /\ UNCHANGED <<mgrvars, closed, idle, used, db, current_schema, outfile, op, pre>>

\* mutant: the failed statement is sent again
QExecFailsRetries(c) ==
    /\ pc[c] = "q_exec"
    /\ StmtFails(op[c].stmts[1])
    /\ conns' = [conns EXCEPT ![loc[c].conn] = ConnExecFail(@)]
    /\ Log(c, Ev("execute", 1, op[c].stmts[1]))
    /\ IF CountEv(c, "execute") >= 1
       THEN /\ loc' = [loc EXCEPT ![c].exc = "DatabaseError"]
            /\ Goto(c, "q_except")
       ELSE UNCHANGED <<loc, pc>>
    /\ UNCHANGED <<mgrvars, closed, idle, used, db, current_schema, outfile, op, pre>>

QExecFails(c) ==
    /\ pc[c] = "q_exec"
    /\ StmtFails(op[c].stmts[1])
    /\ conns' = [conns EXCEPT ![loc[c].conn] = ConnExecFail(@)]
    /\ loc' = [loc EXCEPT ![c].exc = "DatabaseError",
                           ![c].msg = <<ServerMessage(op[c].stmts[1])>>]
    /\ Log(c, Ev("execute", 1, op[c].stmts[1]))
    /\ Goto(c, "q_except")
    /\ UNCHANGED <<mgrvars, closed, idle, used, db, current_schema, outfile, op, pre>>

\* conn.commit() of a method, on its connection
CommitOk(c, from, to) ==
    /\ pc[c] = from
    /\ conns' = [conns EXCEPT ![loc[c].conn] = ConnCommit(@)]
    /\ db' = DbCommit(conns[loc[c].conn])
    /\ Log(c, Ev("commit", loc[c].conn, op[c].name))
    /\ Goto(c, to)
    /\ UNCHANGED <<mgrvars, closed, idle, used, current_schema, outfile, op, pre>>

\* conn.commit() raises a DatabaseError
CommitFault(c, from, to) ==
    /\ pc[c] = from
    /\ conns' = [conns EXCEPT ![loc[c].conn] = ConnExecFail(@)]
    /\ loc' = [loc EXCEPT ![c].exc = "DatabaseError", ![c].msg = <<"commit failed">>]
    /\ Log(c, Ev("commit_failed", loc[c].conn, op[c].name))
    /\ Goto(c, to)
    /\ UNCHANGED <<mgrvars, closed, idle, used, db, current_schema, outfile, op, pre>>

QCommitOk(c) == CommitOk(c, "q_commit", "q_finally") /\ UNCHANGED loc
QCommitFault(c) == CommitFault(c, "q_commit", "q_except")
QExcept(c) == ExceptStep(c, "q_except", "q_finally", TRUE)
QFinally(c) == FinallyStep(c, "q_finally")

\* ---------------------------------------------- execute_transaction
StmtLists == UNION {[1..n -> TxStmts] : n \in 0..MaxStmts}

CallExecuteTransaction(c) ==
    \E stmts \in StmtLists :
        /\ db + Inserts(stmts) <= MaxRows
        /\ Begin(c, [NoOp EXCEPT !.name = "execute_transaction", !.stmts = stmts,
                                 !.retries = DefaultRetries, !.delay = DefaultDelay],
                 "gc_getconn")

\* mutant: every statement is committed as it is executed
TExecOkCommitsEach(c) ==
    /\ pc[c] = "t_exec"
    /\ loc[c].i <= Len(op[c].stmts)
    /\ ~StmtFails(op[c].stmts[loc[c].i])
    /\ conns' = [conns EXCEPT ![loc[c].conn] =
                    ConnCommit(ConnExecOk(op[c].stmts[loc[c].i], @))]
    /\ db' = DbCommit(ConnExecOk(op[c].stmts[loc[c].i], conns[loc[c].conn]))
    /\ loc' = [loc EXCEPT ![c].i = @ + 1]
    /\ Log(c, Ev("execute", loc[c].i, op[c].stmts[loc[c].i]))
    /\ UNCHANGED <<mgrvars, closed, idle, used, current_schema, outfile, pc, op, pre>>

\* for query, params in queries: cursor.execute(query, params or ())
TExecOk(c) ==
    /\ pc[c] = "t_exec"
    /\ loc[c].i <= Len(op[c].stmts)
    /\ ~StmtFails(op[c].stmts[loc[c].i])
    /\ conns' = [conns EXCEPT ![loc[c].conn] = ConnExecOk(op[c].stmts[loc[c].i], @)]
    /\ loc' = [loc EXCEPT ![c].i = @ + 1]
    /\ Log(c, Ev("execute", loc[c].i, op[c].stmts[loc[c].i]))
    /\ UNCHANGED <<mgrvars, closed, idle, used, db, current_schema, outfile, pc, op, pre>>

\* mutant: the loop goes on after a statement that failed
TExecFailsContinues(c) ==
    /\ pc[c] = "t_exec"
    /\ loc[c].i <= Len(op[c].stmts)
    /\ StmtFails(op[c].stmts[loc[c].i])
    /\ loc' = [loc EXCEPT ![c].i = @ + 1]
    /\ Log(c, Ev("execute", loc[c].i, op[c].stmts[loc[c].i]))
    /\ UNCHANGED <<mgrvars, closed, idle, used, conns, db, current_schema, outfile, pc, op, pre>>

TExecFails(c) ==
    /\ pc[c] = "t_exec"
    /\ loc[c].i <= Len(op[c].stmts)
    /\ StmtFails(op[c].stmts[loc[c].i])
    /\ conns' = [conns EXCEPT ![loc[c].conn] = ConnExecFail(@)]
    /\ loc' = [loc EXCEPT ![c].exc = "DatabaseError",
                           ![c].msg = <<ServerMessage(op[c].stmts[loc[c].i])>>]
    /\ Log(c, Ev("execute", loc[c].i, op[c].stmts[loc[c].i]))
    /\ Goto(c, "t_except")
    /\ UNCHANGED <<mgrvars, closed, idle, used, db, current_schema, outfile, op, pre>>

\* after the loop: conn.commit(); return True
TCommitOk(c) ==
    /\ loc[c].i > Len(op[c].stmts)
    /\ CommitOk(c, "t_exec", "t_finally")
    /\ loc' = [loc EXCEPT ![c].res = RetBool(TRUE)]

TCommitFault(c) ==
    /\ loc[c].i > Len(op[c].stmts)
    /\ CommitFault(c, "t_exec", "t_except")

TExcept(c) == ExceptStep(c, "t_except", "t_finally", TRUE)
TFinally(c) == FinallyStep(c, "t_finally")


\* ------------------------------------------------------ export_table
CallExportTable(c) ==
    \E t \in Tables :
        Begin(c, [NoOp EXCEPT !.name = "export_table", !.table = t,
                              !.retries = DefaultRetries, !.delay = DefaultDelay],
              "x_mkdir")

\* a file system call of export_table raises OSError
XIoFault(c, from) ==
    /\ pc[c] = from
    /\ loc' = [loc EXCEPT ![c].exc = "OSError", ![c].msg = <<"os error">>]
    /\ Log(c, Ev("io_failed", 0, from))
    /\ Goto(c, "x_except")
    /\ UNCHANGED <<mgrvars, closed, idle, used, conns, db, current_schema, outfile, op, pre>>

\* output_path.parent.mkdir(parents=True, exist_ok=True)
XMkdirOk(c) ==
    /\ pc[c] = "x_mkdir"
    /\ Goto(c, "gc_getconn")
    /\ UNCHANGED <<mgrvars, closed, idle, used, conns, db, current_schema, outfile, op, loc, pre, trace>>

XMkdirFault(c) == XIoFault(c, "x_mkdir")

\* output_path.open("w"): the file is created or truncated
XOpenOk(c) ==
    /\ pc[c] = "x_open"
    /\ outfile' = <<>>
    /\ Goto(c, "x_copy")
    /\ UNCHANGED <<mgrvars, closed, idle, used, conns, db, current_schema, op, loc, pre, trace>>

XOpenFault(c) == XIoFault(c, "x_open")

\* a row of the table, by what its text values hold: no line break, or one
RowKinds == {"plain", "multiline"}

\* the CSV record of a row: a value with a line break is quoted and keeps
\* the break, so that the record takes two lines of the file
RowLines(kind) ==
    IF kind = "multiline" THEN <<"row_begin", "row_end">> ELSE <<"row">>

RECURSIVE CsvBody(_)
CsvBody(rows) ==
    IF rows = <<>> THEN <<>> ELSE RowLines(Head(rows)) \o CsvBody(Tail(rows))

\* mutant: COPY .. WITH CSV, the HEADER option lost
CsvLinesNoHeader(rows) == CsvBody(rows)

\* COPY table TO STDOUT WITH CSV HEADER: the header line, then the record
\* of every row
CsvLines(rows) == <<"header">> \o CsvBody(rows)

\* cursor.copy_expert(query, f): the rows the connection sees go to the file
XCopyOk(c) ==
    /\ pc[c] = "x_copy"
    /\ op[c].table \in ExistingTables
    /\ \E rows \in [1..Visible(conns[loc[c].conn]) -> RowKinds] :
        /\ outfile' = CsvLines(rows)
        /\ loc' = [loc EXCEPT ![c].rows = rows]
    /\ conns' = [conns EXCEPT ![loc[c].conn].status = "intrans"]
    /\ Log(c, Ev("execute", 1, "copy"))
    /\ Goto(c, "x_commit")
    /\ UNCHANGED <<mgrvars, closed, idle, used, db, current_schema, op, pre>>

XCopyFails(c) ==
    /\ pc[c] = "x_copy"
    /\ op[c].table \notin ExistingTables
    /\ conns' = [conns EXCEPT ![loc[c].conn] = ConnExecFail(@)]
    /\ loc' = [loc EXCEPT ![c].exc = "DatabaseError",
                           ![c].msg = <<ServerMessage("copy")>>]
    /\ Log(c, Ev("execute", 1, "copy"))
    /\ Goto(c, "x_except")
    /\ UNCHANGED <<mgrvars, closed, idle, used, db, current_schema, outfile, op, pre>>

\* cursor.copy_expert(query, f): writing to the file raises OSError
XWriteFault(c) == XIoFault(c, "x_copy")

\* mutant: the handler of export_table is `except DatabaseError`
XExceptDatabaseErrorOnly(c) ==
    IF loc[c].exc = "DatabaseError"
    THEN ExceptStep(c, "x_except", "x_finally", TRUE)
    ELSE /\ pc[c] = "x_except"
         /\ Goto(c, "x_finally")
         /\ UNCHANGED <<mgrvars, closed, idle, used, conns, db, current_schema, outfile,
                        op, loc, pre, trace>>

XCommitOk(c) == CommitOk(c, "x_commit", "x_finally") /\ UNCHANGED loc
XCommitFault(c) == CommitFault(c, "x_commit", "x_except")
XExcept(c) == ExceptStep(c, "x_except", "x_finally", TRUE)
XFinally(c) == FinallyStep(c, "x_finally")

\* --------------------------------------------------------- connected
\* where the value b of self.connected goes: the value of the property, or
\* the guard of set_schema (ConnectionError("Connection pool not available"))
CnLoc(c, b) ==
    CASE op[c].name \in {"connected", "connect"} ->
             [loc[c] EXCEPT !.gconn = NoConn, !.res = RetBool(b)]
      [] b -> [loc[c] EXCEPT !.gconn = NoConn]
      [] OTHER -> [loc[c] EXCEPT !.gconn = NoConn, !.exc = "ConnectionError"]

CnPc(c, b) ==
    IF op[c].name = "set_schema" /\ b THEN "gc_getconn" ELSE "done"

CallConnected(c) == Begin(c, [NoOp EXCEPT !.name = "connected"], "cn_check")

\* connect(): a warning is logged; return self.connected
CallConnect(c) == Begin(c, [NoOp EXCEPT !.name = "connect"], "cn_check")

\* mutant: a closed pool is opened again by the probe
CnClosedReopens(c) ==
    /\ pc[c] = "cn_check"
    /\ closed
    /\ closed' = FALSE
    /\ idle' = <<1>>
    /\ used' = {}
    /\ conns' = [k \in ConnIds |-> IF k = 1 THEN FreshConn ELSE ClosedConn]
    /\ loc' = [loc EXCEPT ![c] = CnLoc(c, TRUE)]
    /\ Log(c, Ev("probe_getconn", 1, "new"))
    /\ Goto(c, CnPc(c, TRUE))
    /\ UNCHANGED <<mgrvars, db, current_schema, outfile, op, pre>>

\* if not self.connection_pool or self.connection_pool.closed: return False
CnClosed(c) ==
    /\ pc[c] = "cn_check"
    /\ closed
    /\ loc' = [loc EXCEPT ![c] = CnLoc(c, FALSE)]
    /\ Goto(c, CnPc(c, FALSE))
    /\ UNCHANGED <<mgrvars, closed, idle, used, conns, db, current_schema, outfile, op, pre, trace>>

\* conn = self.connection_pool.getconn()
CnGetconnPooled(c) ==
    /\ pc[c] = "cn_check"
    /\ ~closed /\ idle # <<>>
    /\ idle' = SubSeq(idle, 1, Len(idle) - 1)
    /\ used' = used \cup {idle[Len(idle)]}
    /\ loc' = [loc EXCEPT ![c].gconn = idle[Len(idle)]]
    /\ Log(c, Ev("probe_getconn", idle[Len(idle)], "pooled"))
    /\ Goto(c, "cn_putconn")
    /\ UNCHANGED <<mgrvars, closed, conns, db, current_schema, outfile, op, pre>>

CnGetconnConnect(c) ==
    /\ pc[c] = "cn_check"
    /\ ~closed /\ idle = <<>> /\ Cardinality(used) < maxconn
    /\ conns' = [conns EXCEPT ![SmallestFree] = FreshConn]
    /\ used' = used \cup {SmallestFree}
    /\ loc' = [loc EXCEPT ![c].gconn = SmallestFree]
    /\ Log(c, Ev("probe_getconn", SmallestFree, "new"))
    /\ Goto(c, "cn_putconn")
    /\ UNCHANGED <<mgrvars, closed, idle, db, current_schema, outfile, op, pre>>

\* the new connection cannot be opened: except DatabaseError: return False
CnGetconnConnectFails(c) ==
    /\ pc[c] = "cn_check"
    /\ ~closed /\ idle = <<>> /\ Cardinality(used) < maxconn
    /\ loc' = [loc EXCEPT ![c] = CnLoc(c, FALSE)]
    /\ Log(c, Ev("probe_failed", 0, "OperationalError"))
    /\ Goto(c, CnPc(c, FALSE))
    /\ UNCHANGED <<mgrvars, closed, idle, used, conns, db, current_schema, outfile, op, pre>>

\* the pool is exhausted: PoolError is no DatabaseError and leaves the property
CnGetconnExhausted(c) ==
    /\ pc[c] = "cn_check"
    /\ ~closed /\ idle = <<>> /\ Cardinality(used) = maxconn
    /\ loc' = [loc EXCEPT ![c].exc = "PoolError"]
    /\ Log(c, Ev("getconn_error", 0, "PoolError"))
    /\ Goto(c, "done")
    /\ UNCHANGED <<mgrvars, closed, idle, used, conns, db, current_schema, outfile, op, pre>>

\* mutant: the probe answers True and keeps the connection
CnPutconnSkipped(c) ==
    /\ pc[c] = "cn_putconn"
    /\ loc' = [loc EXCEPT ![c] = CnLoc(c, TRUE)]
    /\ Goto(c, CnPc(c, TRUE))
    /\ UNCHANGED <<mgrvars, closed, idle, used, conns, db, current_schema, outfile,
                   op, pre, trace>>

\* self.connection_pool.putconn(conn); return True
CnPutconn(c) ==
    /\ pc[c] = "cn_putconn"
    /\ IF closed
       THEN /\ loc' = [loc EXCEPT ![c].exc = "PoolError"]
            /\ Goto(c, "done")
            /\ UNCHANGED <<idle, used, conns, trace>>
       ELSE /\ idle' = PutIdle(loc[c].gconn)
            /\ used' = used \ {loc[c].gconn}
            /\ conns' = PutConns(loc[c].gconn)
            /\ loc' = [loc EXCEPT ![c] = CnLoc(c, TRUE)]
            /\ Log(c, Ev("probe_putconn", loc[c].gconn, ""))
            /\ Goto(c, CnPc(c, TRUE))
    /\ UNCHANGED <<mgrvars, closed, db, current_schema, outfile, op, pre>>

\* -------------------------------------------------------- set_schema
CallSetSchema(c) ==
    \E name \in Schemas :
        Begin(c, [NoOp EXCEPT !.name = "set_schema", !.schema = name,
                              !.retries = DefaultRetries, !.delay = DefaultDelay],
              "cn_check")

SExcept(c) == ExceptStep(c, "s_except", "s_finally", FALSE)
SFinally(c) == FinallyStep(c, "s_finally")

\* -------------------------------------------------------- close_pool
CallClosePool(c) == Begin(c, [NoOp EXCEPT !.name = "close_pool"], "cp_close")

\* disconnect(): a warning is logged; self.close_pool()
CallDisconnect(c) == Begin(c, [NoOp EXCEPT !.name = "disconnect"], "cp_close")

\* mutant: closeall() without the test of closed; a closed pool raises
ClosePoolUnguarded(c) ==
    /\ pc[c] = "cp_close"
    /\ IF closed
       THEN /\ loc' = [loc EXCEPT ![c].exc = "PoolError"]
            /\ UNCHANGED <<closed, conns, trace>>
       ELSE /\ closed' = TRUE
            /\ conns' = [k \in ConnIds |-> ClosedConn]
            /\ Log(c, Ev("closeall", 0, ""))
            /\ UNCHANGED loc
    /\ Goto(c, "done")
    /\ UNCHANGED <<mgrvars, idle, used, db, current_schema, outfile, op, pre>>

\* if self.connection_pool and not self.connection_pool.closed: closeall()
ClosePool(c) ==
    /\ pc[c] = "cp_close"
    /\ IF closed
       THEN UNCHANGED <<closed, conns, trace>>
       ELSE /\ closed' = TRUE
            /\ conns' = [k \in ConnIds |-> ClosedConn]
            /\ Log(c, Ev("closeall", 0, ""))
    /\ Goto(c, "done")
    /\ UNCHANGED <<mgrvars, idle, used, db, current_schema, outfile, op, loc, pre>>

\* ------------------------------------- with DatabaseManager as db
\* __enter__ returns self; the block runs
CallWith(c) == Begin(c, [NoOp EXCEPT !.name = "with"], "w_body")

\* the block ends normally; __exit__ calls self.close_pool()
WithBodyReturns(c) ==
    /\ pc[c] = "w_body"
    /\ Goto(c, "cp_close")
    /\ UNCHANGED <<mgrvars, closed, idle, used, conns, db, current_schema, outfile,
                   op, loc, pre, trace>>

\* mutant: an exception of the block leaves without __exit__
WithBodyRaisesSkipsExit(c) ==
    /\ pc[c] = "w_body"
    /\ loc' = [loc EXCEPT ![c].exc = "BodyError"]
    /\ Log(c, Ev("body_raised", 0, "BodyError"))
    /\ Goto(c, "done")
    /\ UNCHANGED <<mgrvars, closed, idle, used, conns, db, current_schema, outfile, op, pre>>

\* the block raises; __exit__ calls self.close_pool() and returns None, so
\* the exception goes on to the caller
WithBodyRaises(c) ==
    /\ pc[c] = "w_body"
    /\ loc' = [loc EXCEPT ![c].exc = "BodyError"]
    /\ Log(c, Ev("body_raised", 0, "BodyError"))
    /\ Goto(c, "cp_close")
    /\ UNCHANGED <<mgrvars, closed, idle, used, conns, db, current_schema, outfile, op, pre>>

\* ----------------------------- get_connection called by a client
\* get_connection(retries, delay) with retries >= 1; the client puts the
\* connection back when it has it
CallGetConnection(c) ==
    \E r \in 1..MaxRetries, d \in 1..MaxDelay :
        Begin(c, [NoOp EXCEPT !.name = "get_connection", !.retries = r, !.delay = d],
              "gc_getconn")

GRelease(c) == FinallyStep(c, "g_release")

\* ------------------------------------------------------------- steps
Step(c) ==
    \/ CallExecuteQuery(c) \/ CallGetDatabaseInfo(c) \/ CallExecuteTransaction(c)
    \/ CallExportTable(c) \/ CallSetSchema(c) \/ CallConnected(c)
    \/ CallClosePool(c) \/ CallGetConnection(c) \/ CallConnect(c) \/ CallDisconnect(c)
    \/ GcGetconnPoolError(c) \/ GcGetconnPooled(c) \/ GcGetconnConnect(c)
    \/ GcGetconnConnectFails(c) \/ GcExhausted(c) \/ GcSleepRetry(c)
    \/ SsCheckFound(c) \/ SsCheckMissing(c) \/ SsCheckFault(c)
    \/ SsApplyOk(c) \/ SsSetFault(c) \/ SsCommitFault(c)
    \/ QExecOk(c) \/ QExecFails(c) \/ QCommitOk(c) \/ QCommitFault(c)
    \/ QExcept(c) \/ QFinally(c)
    \/ TExecOk(c) \/ TExecFails(c) \/ TCommitOk(c) \/ TCommitFault(c)
    \/ TExcept(c) \/ TFinally(c)
    \/ XMkdirOk(c) \/ XMkdirFault(c) \/ XOpenOk(c) \/ XOpenFault(c)
    \/ XCopyOk(c) \/ XCopyFails(c) \/ XWriteFault(c) \/ XCommitOk(c) \/ XCommitFault(c)
    \/ XExcept(c) \/ XFinally(c)
    \/ CnClosed(c) \/ CnGetconnPooled(c) \/ CnGetconnConnect(c)
    \/ CnGetconnConnectFails(c) \/ CnGetconnExhausted(c) \/ CnPutconn(c)
    \/ SExcept(c) \/ SFinally(c)
    \/ CallWith(c) \/ WithBodyReturns(c) \/ WithBodyRaises(c)
    \/ ClosePool(c) \/ GRelease(c) \/ Forget(c)

\* The program is single-threaded (main.py, ui/menus.py): one caller.
SeqCallers == {1}

Next == \E c \in SeqCallers : Step(c)

Spec == Init /\ [][Next]_vars

\* ------------------------------------------------------ construction
\* DatabaseManager() or DatabaseManager(max_connections)
NoArg == 0
CtorArgs == {NoArg} \cup (1..max_connections)

\* max_connections as __init__ receives it
MaxConnArg(arg) == IF arg = NoArg THEN DefaultMaxConnections ELSE arg

\* before the manager is constructed
InitNew ==
    /\ connection_pool = "None"
    /\ maxconn = 0
    /\ ctor = NewCtor(NoArg, 0, "none")
    /\ closed = FALSE
    /\ idle = <<>>
    /\ used = {}
    /\ conns = [k \in ConnIds |-> ClosedConn]
    /\ db \in 0..MaxRows
    /\ current_schema = SCHEMA_NAME
    /\ outfile = <<>>
    /\ pc = [c \in Callers |-> "idle"]
    /\ op = [c \in Callers |-> NoOp]
    /\ loc = [c \in Callers |-> NoLoc]
    /\ pre = [c \in Callers |-> NoPre]
    /\ trace = [c \in Callers |-> <<>>]
    /\ usuario = NoUsuario
    /\ menu = NoMenu

\* _initialize_pool: SimpleConnectionPool(1, max_connections, **DB_CONFIG)
\* opens minconn connections and the manager refers to the pool
NewOk ==
    \E arg \in CtorArgs :
        /\ connection_pool = "None" /\ ctor.attempts = 0
        /\ connection_pool' = "pool"
        /\ maxconn' = MaxConnArg(arg)
        /\ ctor' = NewCtor(arg, ctor.attempts + 1, "none")
        /\ idle' = [i \in 1..minconn |-> i]
        /\ conns' = [k \in ConnIds |-> IF k <= minconn THEN FreshConn ELSE ClosedConn]
        /\ UNCHANGED <<closed, used, db, current_schema, outfile, pc, op, loc, pre, trace,
                       usuario, menu>>

\* mutant: a second attempt before the constructor gives up
NewFailsRetries ==
    \E arg \in CtorArgs :
        /\ connection_pool = "None" /\ ctor.attempts = 0
        /\ ctor' = NewCtor(arg, ctor.attempts + 2, "ConnectionError")
        /\ UNCHANGED <<connection_pool, maxconn, closed, idle, used, conns, db,
                       current_schema, outfile, pc, op, loc, pre, trace, usuario, menu>>

\* the pool cannot connect: except DatabaseError: raise ConnectionError
NewFails ==
    \E arg \in CtorArgs :
        /\ connection_pool = "None" /\ ctor.attempts = 0
        /\ ctor' = NewCtor(arg, ctor.attempts + 1, "ConnectionError")
        /\ UNCHANGED <<connection_pool, maxconn, closed, idle, used, conns, db,
                       current_schema, outfile, pc, op, loc, pre, trace, usuario, menu>>

\* the manager of a test: probed, used in a with-block, closed
StepNew(c) ==
    \/ CallConnected(c) \/ CnClosed(c) \/ CnGetconnPooled(c) \/ CnPutconn(c)
    \/ CallWith(c) \/ WithBodyReturns(c) \/ WithBodyRaises(c)
    \/ CallClosePool(c) \/ ClosePool(c) \/ Forget(c)

NextNew == NewOk \/ NewFails \/ \E c \in SeqCallers : StepNew(c)

SpecNew == InitNew /\ [][NextNew]_vars

\* ------------------------------------------- callers that are threads
\* SimpleConnectionPool takes no lock (the locked pool of psycopg2 is
\* ThreadedConnectionPool): when the callers are threads, the tests and the
\* updates of getconn() and putconn() are separate steps, and another
\* caller can run between them.

\* conn = self.get_connection(), as every method of the manager calls it
CallGetConnectionDefault(c) ==
    /\ connection_pool = "pool"
    /\ pc[c] = "idle"
    /\ op' = [op EXCEPT ![c] = [NoOp EXCEPT !.name = "get_connection",
                                            !.retries = DefaultRetries,
                                            !.delay = DefaultDelay]]
    /\ Goto(c, "gc_getconn")
    /\ UNCHANGED <<mgrvars, closed, idle, used, conns, db, current_schema, outfile,
                   loc, pre, trace>>

\* the thread's call is over
ThForget(c) ==
    /\ pc[c] = "done"
    /\ op' = [op EXCEPT ![c] = NoOp]
    /\ loc' = [loc EXCEPT ![c] = NoLoc]
    /\ trace' = [trace EXCEPT ![c] = <<>>]
    /\ Goto(c, "idle")
    /\ UNCHANGED <<mgrvars, closed, idle, used, conns, db, current_schema, outfile, pre>>

\* getconn(): `if self._pool:` finds an idle connection
ThGetconnSeesIdle(c) ==
    /\ pc[c] = "gc_getconn"
    /\ ~closed /\ idle # <<>>
    /\ Goto(c, "th_pop")
    /\ UNCHANGED <<mgrvars, closed, idle, used, conns, db, current_schema, outfile,
                   op, loc, pre, trace>>

\* getconn(): no idle connection and `len(self._used) == self.maxconn` is false
ThGetconnSeesRoom(c) ==
    /\ pc[c] = "gc_getconn"
    /\ ~closed /\ idle = <<>> /\ Cardinality(used) # maxconn
    /\ Goto(c, "th_connect")
    /\ UNCHANGED <<mgrvars, closed, idle, used, conns, db, current_schema, outfile,
                   op, loc, pre, trace>>

\* self._pool.pop(): the idle connection is checked out
ThPop(c) ==
    /\ pc[c] = "th_pop"
    /\ idle # <<>>
    /\ LET k == idle[Len(idle)] IN
        /\ idle' = SubSeq(idle, 1, Len(idle) - 1)
        /\ used' = used \cup {k}
        /\ loc' = [loc EXCEPT ![c] = GcSchemaCall(c, k)]
        /\ Log(c, Ev("getconn", k, "pooled"))
    /\ Goto(c, "ss_check")
    /\ UNCHANGED <<mgrvars, closed, conns, db, current_schema, outfile, op, pre>>

\* self._pool.pop() after another caller took the connection: IndexError,
\* which get_connection does not catch
ThPopEmpty(c) ==
    /\ pc[c] = "th_pop"
    /\ idle = <<>>
    /\ loc' = [loc EXCEPT ![c].exc = "IndexError"]
    /\ Log(c, Ev("getconn_error", loc[c].attempt + 1, "IndexError"))
    /\ Goto(c, AfterGcRaise(op[c], "IndexError"))
    /\ UNCHANGED <<mgrvars, closed, idle, used, conns, db, current_schema, outfile, op, pre>>

\* self._connect(key): a new connection is opened and entered in _used,
\* whatever the pool holds by now
ThConnect(c) ==
    /\ pc[c] = "th_connect"
    /\ \E j \in ConnIds : ~conns[j].open
    /\ LET k == SmallestFree IN
        /\ conns' = [conns EXCEPT ![k] = FreshConn]
        /\ used' = used \cup {k}
        /\ loc' = [loc EXCEPT ![c] = GcSchemaCall(c, k)]
        /\ Log(c, Ev("getconn", k, "new"))
    /\ Goto(c, "ss_check")
    /\ UNCHANGED <<mgrvars, closed, idle, db, current_schema, outfile, op, pre>>

\* psycopg2.connect() fails: OperationalError, caught at line 73
ThConnectFails(c) ==
    /\ pc[c] = "th_connect"
    /\ Log(c, Ev("attempt_failed", loc[c].attempt + 1, "OperationalError"))
    /\ Goto(c, "gc_failed")
    /\ UNCHANGED <<mgrvars, closed, idle, used, conns, db, current_schema, outfile,
                   op, loc, pre>>

\* putconn(conn): `len(self._pool) < self.minconn` is tested ..
ThPutconnTest(c) ==
    /\ pc[c] = "g_release"
    /\ Goto(c, IF Len(idle) < minconn THEN "th_put_keep" ELSE "th_put_close")
    /\ UNCHANGED <<mgrvars, closed, idle, used, conns, db, current_schema, outfile,
                   op, loc, pre, trace>>

\* .. and the connection is rolled back and appended to the idle ones
ThPutconnKeep(c) ==
    /\ pc[c] = "th_put_keep"
    /\ idle' = Append(idle, loc[c].conn)
    /\ used' = used \ {loc[c].conn}
    /\ conns' = [conns EXCEPT ![loc[c].conn] = ConnRollback(@)]
    /\ Log(c, Ev("putconn", loc[c].conn, ""))
    /\ Goto(c, "done")
    /\ UNCHANGED <<mgrvars, closed, db, current_schema, outfile, op, loc, pre>>

\* .. or closed
ThPutconnClose(c) ==
    /\ pc[c] = "th_put_close"
    /\ used' = used \ {loc[c].conn}
    /\ conns' = [conns EXCEPT ![loc[c].conn] = ClosedConn]
    /\ Log(c, Ev("putconn", loc[c].conn, ""))
    /\ Goto(c, "done")
    /\ UNCHANGED <<mgrvars, closed, idle, db, current_schema, outfile, op, loc, pre>>

\* callers that are threads, each acquiring a connection and putting it back
StepThreads(c) ==
    \/ CallGetConnectionDefault(c)
    \/ ThGetconnSeesIdle(c) \/ ThGetconnSeesRoom(c) \/ GcGetconnPoolError(c)
    \/ ThPop(c) \/ ThPopEmpty(c) \/ ThConnect(c) \/ ThConnectFails(c)
    \/ GcExhausted(c) \/ GcSleepRetry(c)
    \/ SsCheckFound(c) \/ SsCheckFault(c) \/ SsApplyOk(c) \/ SsSetFault(c)
    \/ SsCommitFault(c)
    \/ ThPutconnTest(c) \/ ThPutconnKeep(c) \/ ThPutconnClose(c)
    \/ ThForget(c)

NextThreads == \E c \in Callers : StepThreads(c)

InitThreads == Init /\ db = 0

SpecThreads == InitThreads /\ [][NextThreads]_vars


\* ------------------------------------- callers sharing one manager
\* Several callers use one manager and the pool keeps its calls apart
\* (each getconn() and putconn() is one step): one caller changes the
\* schema with set_schema, the others acquire connections as every method
\* of the manager does.  Between the steps of a caller (the round trips to
\* the server of _set_schema) the other callers run.
SchemaCaller == 1

StepSchemaCaller(c) ==
    \/ CallSetSchema(c)
    \/ CnGetconnPooled(c) \/ CnGetconnConnect(c) \/ CnPutconn(c)
    \/ GcGetconnPooled(c) \/ GcGetconnConnect(c)
    \/ SsCheckFound(c) \/ SsCheckMissing(c) \/ SsApplyOk(c)
    \/ SExcept(c) \/ SFinally(c) \/ Forget(c)

StepConnectionCaller(c) ==
    \/ CallGetConnectionDefault(c)
    \/ GcGetconnPooled(c) \/ GcGetconnConnect(c)
    \/ SsCheckFound(c) \/ SsApplyOk(c)
    \/ GRelease(c) \/ ThForget(c)

NextShared ==
    \/ StepSchemaCaller(SchemaCaller)
    \/ \E c \in Callers \ {SchemaCaller} : StepConnectionCaller(c)

SpecShared == InitThreads /\ [][NextShared]_vars

\* --------------------------------------------------- models/usuario.py
\* main() has one thread: it is caller 1 of the manager
Main == 1

required_fields == {"cpf", "nome_completo", "email", "senha", "tipo"}
optional_fields == {"telefone"}
valid_types == {"servidor", "juiz", "advogado", "parte"}

\* the values of tipo a caller passes ("admin" is none of valid_types), and
\* the key sets of the dicts it passes
Tipos == {"parte", "juiz", "admin"}
KeySets ==
    {{}, {"email"}, {"tipo"}, {"email", "tipo"}, required_fields \ {"cpf"},
     required_fields \ {"tipo"}, required_fields,
     required_fields \cup optional_fields}
Data ==
    {d \in [keys : KeySets, tipo : Tipos \cup {NoTipo}] :
        ("tipo" \in d.keys) <=> (d.tipo # NoTipo)}

\* f"{db.current_schema}.usuarios"
TableName(schema) == schema \o ".usuarios"

\* _validate_fields(data): the exception it raises, if any
ValidateFields(data) ==
    IF required_fields \ data.keys # {} THEN "ValueError"
    ELSE IF data.tipo \notin valid_types THEN "ValueError"
    ELSE "none"

\* the tests at the head of update(usuario_id, data)
UpdateCheck(data) ==
    IF data.keys = {} THEN "ValueError"
    ELSE IF "tipo" \in data.keys /\ data.tipo \notin valid_types THEN "ValueError"
    ELSE "none"

UsuarioMethods ==
    {"create", "get_by_id", "update", "delete", "list_all", "search",
     "authenticate", "update_last_login"}

\* the methods that test their data before the query
Validating == {"create", "update"}

Validation(method, data) ==
    CASE method = "create" -> ValidateFields(data)
      [] method = "update" -> UpdateCheck(data)
      [] OTHER -> "none"

\* the statement of the method, and the fetch argument it passes
MethodStmt(method) ==
    CASE method = "create" -> "insert_returning"
      [] method = "delete" -> "delete"
      [] method \in {"update", "update_last_login"} -> "update"
      [] OTHER -> "select"

MethodFetch(method) == method \notin {"update", "delete", "update_last_login"}

\* the methods with `except Exception as e: raise RuntimeError(..)`
MethodWraps(method) == method \in {"create", "update", "delete", "update_last_login"}

\* mutant: the statement names the table of the manager's schema of the moment
UsuarioOpFollowsSchema(u) ==
    [QueryOp(MethodStmt(u.method), MethodFetch(u.method), TRUE)
        EXCEPT !.table = TableName(current_schema)]

\* self.db.execute_query(query, params, ..): the statement names
\* self.table_name
UsuarioOp(u) ==
    [QueryOp(MethodStmt(u.method), MethodFetch(u.method), TRUE)
        EXCEPT !.table = u.table_name]

\* the rows of the result with the id asked for (WHERE id = %s)
Matching(rows, id) == SelectSeq(rows, LAMBDA r : r = id)

\* what the method makes of the result of execute_query
UsuarioResult(method, id, ret) ==
    CASE method = "create" ->
             IF ret.none THEN RetNone ELSE RetPair(<<"id">>, <<ret.rows[1]>>)
      [] method \in {"get_by_id", "authenticate"} ->
             IF ~ret.none /\ Matching(ret.rows, id) # <<>>
             THEN RetPair(ret.cols, <<Head(Matching(ret.rows, id))>>)
             ELSE RetNone
      [] method \in {"list_all", "search"} ->
             IF ret.none THEN RetPair(<<>>, <<>>) ELSE RetPair(ret.cols, ret.rows)
      [] OTHER -> RetBool(TRUE)

\* the exception that leaves the method for the exception e of execute_query
UsuarioRaises(method, e) ==
    IF e # "none" /\ MethodWraps(method) THEN "RuntimeError" ELSE e

\* Usuario(db): self.table_name is made of the manager's schema of the moment
UsuarioInit(u) ==
    [u EXCEPT !.at = "idle", !.table_name = TableName(current_schema),
              !.created_in = current_schema]

\* a method of the model is called
UsuarioBegin(u, method, data, id) ==
    [u EXCEPT !.method = method, !.data = data, !.id = id,
              !.at = IF method \in Validating THEN "validate" ELSE "query",
              !.res = RetNone, !.exc = "none", !.calls = 0, !.target = ""]

\* the caller has the method's result
UsuarioEnd(u) ==
    [u EXCEPT !.method = "", !.data = NoData, !.id = 0, !.at = "idle",
              !.res = RetNone, !.exc = "none", !.calls = 0, !.target = ""]

\* the call of caller c is over and its result taken
CallOver(c) ==
    /\ op' = [op EXCEPT ![c] = NoOp]
    /\ loc' = [loc EXCEPT ![c] = NoLoc]
    /\ pre' = [pre EXCEPT ![c] = [NoPre EXCEPT !.after = LastOutcome(c)]]
    /\ trace' = [trace EXCEPT ![c] = <<>>]
    /\ outfile' = <<>>
    /\ Goto(c, "idle")

\* mutant: create and update send the statement before they test the data
UsuarioValidateLate ==
    /\ usuario.at = "validate"
    /\ pc[Main] = "idle"
    /\ usuario' = [usuario EXCEPT !.at = "query"]
    /\ UNCHANGED <<connection_pool, maxconn, ctor, closed, idle, used, conns, db,
                   current_schema, outfile, pc, op, loc, pre, trace, menu>>

\* create: self._validate_fields(data), then the optional fields get None;
\* update: the tests of lines 65-70
UsuarioValidate ==
    /\ usuario.at = "validate"
    /\ pc[Main] = "idle"
    /\ LET e == Validation(usuario.method, usuario.data) IN
        usuario' =
            IF e # "none" THEN [usuario EXCEPT !.at = "done", !.exc = e]
            ELSE IF usuario.method = "create"
            THEN [usuario EXCEPT !.at = "query",
                                 !.data.keys = @ \cup optional_fields]
            ELSE [usuario EXCEPT !.at = "query"]
    /\ UNCHANGED <<connection_pool, maxconn, ctor, closed, idle, used, conns, db,
                   current_schema, outfile, pc, op, loc, pre, trace, menu>>

\* self.db.execute_query(..) is called
UsuarioQuery ==
    /\ usuario.at = "query"
    /\ Begin(Main, UsuarioOp(usuario), "gc_getconn")

\* execute_query is over: the method returns, or raises
UsuarioQueryReturns ==
    /\ usuario.at = "query"
    /\ pc[Main] = "done"
    /\ usuario' =
        [usuario EXCEPT
            !.at = "done",
            !.calls = @ + 1,
            !.target = op[Main].table,
            !.exc = IF Validation(usuario.method, usuario.data) # "none"
                    THEN Validation(usuario.method, usuario.data)
                    ELSE UsuarioRaises(usuario.method, Ret(Main).exc),
            !.res = IF Ret(Main).kind = "raise" THEN RetNone
                    ELSE UsuarioResult(usuario.method, usuario.id, Ret(Main))]
    /\ CallOver(Main)
    /\ UNCHANGED <<connection_pool, maxconn, ctor, closed, idle, used, conns, db,
                   current_schema, menu>>

\* ------------------------------------------- a client of the model
\* A program that makes the model object, calls its methods with any data
\* and changes the manager's schema in between.
ClientNewUsuario ==
    /\ usuario.at = "absent"
    /\ pc[Main] = "idle"
    /\ usuario' = UsuarioInit(usuario)
    /\ UNCHANGED <<connection_pool, maxconn, ctor, closed, idle, used, conns, db,
                   current_schema, outfile, pc, op, loc, pre, trace, menu>>

ClientCalls ==
    /\ usuario.at = "idle"
    /\ pc[Main] = "idle"
    /\ \E method \in UsuarioMethods, data \in Data, id \in 1..MaxRows :
        /\ method \notin Validating => data = NoData
        /\ method \in {"create", "list_all", "search"} => id = 1
        /\ method = "create" => db < MaxRows
        /\ usuario' = UsuarioBegin(usuario, method, data, id)
    /\ UNCHANGED <<connection_pool, maxconn, ctor, closed, idle, used, conns, db,
                   current_schema, outfile, pc, op, loc, pre, trace, menu>>

ClientTakesResult ==
    /\ usuario.at = "done"
    /\ usuario' = UsuarioEnd(usuario)
    /\ UNCHANGED <<connection_pool, maxconn, ctor, closed, idle, used, conns, db,
                   current_schema, outfile, pc, op, loc, pre, trace, menu>>

ClientSetsSchema ==
    /\ usuario.at \in {"absent", "idle"}
    /\ CallSetSchema(Main)

ClientSchemaSet ==
    /\ usuario.at \in {"absent", "idle"}
    /\ Forget(Main)

\* the steps inside execute_query and set_schema
StepQuery(c) ==
    \/ GcGetconnPoolError(c) \/ GcGetconnPooled(c) \/ GcGetconnConnect(c)
    \/ GcGetconnConnectFails(c) \/ GcExhausted(c) \/ GcSleepRetry(c)
    \/ SsCheckFound(c) \/ SsCheckFault(c) \/ SsApplyOk(c)
    \/ QExecOk(c) \/ QCommitOk(c) \/ QCommitFault(c) \/ QExcept(c) \/ QFinally(c)

StepSetSchema(c) ==
    \/ CnGetconnPooled(c) \/ CnGetconnConnect(c) \/ CnGetconnConnectFails(c)
    \/ CnGetconnExhausted(c) \/ CnPutconn(c)
    \/ SsCheckMissing(c) \/ SExcept(c) \/ SFinally(c)

NextUsuario ==
    \/ ClientNewUsuario \/ ClientCalls \/ ClientTakesResult
    \/ ClientSetsSchema \/ ClientSchemaSet
    \/ UsuarioValidate \/ UsuarioQuery \/ UsuarioQueryReturns
    \/ StepQuery(Main) \/ StepSetSchema(Main)

SpecUsuario == InitThreads /\ [][NextUsuario]_vars

\* ------------------------------------------------ main.py, ui/menus.py
\* menu.at is the place of main() in the menus; a method of the manager or
\* of the Usuario object that a menu action calls runs as caller Main, and
\* the action goes on when the call is over.  The prompts answer with any
\* of their choices; Ctrl-C (KeyboardInterrupt) arrives at a prompt.

\* the main menu's actions that begin with self._require_connection()
Guarded ==
    {"list_tables", "describe", "preview", "query", "export", "schema", "info"}
MainChoices == Guarded \cup {"connect", "usuario", "exit"}
SubChoices == {"create", "list", "view", "update", "delete", "back"}

\* the statements typed at "Run Custom Query"
TypedStmts == {"select", "bad"}

\* the dicts _create_usuario and _update_usuario build
MenuCreateData ==
    {d \in Data : d.keys \in {required_fields, required_fields \cup optional_fields}
                  /\ d.tipo \in valid_types}
MenuUpdateData ==
    {d \in Data : d.keys \in {{}, {"email"}, {"tipo"}, {"email", "tipo"}}
                  /\ d.tipo \in valid_types \cup {NoTipo}}

\* the places where self.db.connected or self.db.connect() is evaluated:
\* _require_connection, _connect_db (twice), _exit_app, finally of main()
ProbePlaces == {"rq_probe", "cd_probe", "cd_connect", "ex_probe", "fin_probe"}

\* the place an action of the main menu begins at
FirstPlace(choice) ==
    CASE choice \in Guarded -> "rq_probe"
      [] choice = "connect" -> "cd_probe"
      [] choice = "usuario" -> "usuario_menu"
      [] OTHER -> "ex_probe"

\* _connect_db returns: to the guarded action that called
\* _require_connection, or to _handle_choice
AfterConnectDb(choice) == IF choice \in Guarded THEN "op_call" ELSE "press_enter"

\* what the handler of a submenu option returns: none of _create_usuario,
\* _list_usuarios, _view_usuario, _update_usuario, _delete_usuario and the
\* lambda of "Back to Main Menu" returns a value
ActionValue(sub) == "None"

\* what the steps of the menus leave alone
dbvars == <<connection_pool, maxconn, ctor, closed, idle, used, conns, db, current_schema>>
callvars == <<outfile, pc, op, loc, pre, trace>>

\* main(): MenuSystem(db_manager) makes the Usuario object; main_menu()
MainStarts ==
    /\ menu.at = "off"
    /\ menu' = [menu EXCEPT !.at = "main_menu"]
    /\ usuario' = UsuarioInit(usuario)
    /\ UNCHANGED <<dbvars, callvars>>

\* main_menu: the menu is printed and an option chosen; _handle_choice
MainMenuChoice ==
    /\ menu.at = "main_menu"
    /\ \E choice \in MainChoices :
        menu' = [menu EXCEPT !.at = FirstPlace(choice), !.choice = choice]
    /\ UNCHANGED <<dbvars, callvars, usuario>>

\* KeyboardInterrupt at a prompt: main() catches it and goes to its finally
MainInterrupt ==
    /\ menu.at \in {"main_menu", "press_enter", "usuario_menu"}
    /\ menu' = [menu EXCEPT !.at = "fin_probe", !.why = "interrupt"]
    /\ UNCHANGED <<dbvars, callvars, usuario>>

\* self.db.connected, or self.db.connect() in _connect_db
MenuProbe ==
    /\ menu.at \in ProbePlaces
    /\ Begin(Main, [NoOp EXCEPT !.name = IF menu.at = "cd_connect" THEN "connect"
                                         ELSE "connected"],
             "cn_check")

\* where the code goes with the value r of the probe (or the exception that
\* left it), and the exception that leaves the action; `yes` is the answer
\* to the Confirm.ask that follows, if one follows
\*  - _require_connection: connected -> the action; not connected -> asks,
\*    then _connect_db() or RuntimeError; the result of _connect_db is not
\*    looked at
\*  - _connect_db: already connected -> asks "Reconnect?"; connect() inside
\*    try/except Exception, its result only displayed
\*  - _exit_app: connected -> disconnect(); then SystemExit
\*  - finally of main(): connected -> disconnect()
AfterProbe(at, choice, r, yes) ==
    CASE at = "rq_probe" ->
             IF r.kind = "raise" THEN [at |-> "press_enter", exc |-> r.exc]
             ELSE IF r.bool THEN [at |-> "op_call", exc |-> "none"]
             ELSE IF yes THEN [at |-> "cd_probe", exc |-> "none"]
             ELSE [at |-> "press_enter", exc |-> "RuntimeError"]
      [] at = "cd_probe" ->
             IF r.kind = "raise" THEN [at |-> "press_enter", exc |-> r.exc]
             ELSE IF r.bool /\ ~yes
             THEN [at |-> AfterConnectDb(choice), exc |-> "none"]
             ELSE [at |-> "cd_connect", exc |-> "none"]
      [] at = "cd_connect" -> [at |-> AfterConnectDb(choice), exc |-> "none"]
      [] at = "ex_probe" ->
             IF r.kind = "raise" THEN [at |-> "press_enter", exc |-> r.exc]
             ELSE IF r.bool THEN [at |-> "ex_disconnect", exc |-> "none"]
             ELSE [at |-> "fin_probe", exc |-> "none"]
      [] OTHER ->
             IF r.kind = "raise" THEN [at |-> "ended", exc |-> r.exc]
             ELSE IF r.bool THEN [at |-> "fin_disconnect", exc |-> "none"]
             ELSE [at |-> "ended", exc |-> "none"]

\* the value of the probe, as the guard has it
ProbeValue(r) == IF r.kind = "raise" THEN "raised" ELSE IF r.bool THEN "True" ELSE "False"

\* the probe is over
MenuProbeReturns ==
    /\ menu.at \in ProbePlaces
    /\ pc[Main] = "done"
    /\ \E yes \in BOOLEAN :
        LET next == AfterProbe(menu.at, menu.choice, Ret(Main), yes) IN
            menu' = [menu EXCEPT
                        !.at = next.at,
                        !.exc = next.exc,
                        !.probe = ProbeValue(Ret(Main)),
                        !.why = IF menu.at = "ex_probe" /\ next.at = "fin_probe"
                                THEN "exit" ELSE @]
    /\ CallOver(Main)
    /\ UNCHANGED <<dbvars, usuario>>

\* self.db.disconnect() in _exit_app and in the finally of main()
MenuDisconnect ==
    /\ menu.at \in {"ex_disconnect", "fin_disconnect"}
    /\ CallDisconnect(Main)

\* disconnect() is over: _exit_app raises SystemExit, which leaves
\* main_menu() for the finally of main(); main() ends after its finally
MenuDisconnectReturns ==
    /\ menu.at \in {"ex_disconnect", "fin_disconnect"}
    /\ pc[Main] = "done"
    /\ menu' = [menu EXCEPT
                   !.at = IF menu.at = "ex_disconnect" THEN "fin_probe" ELSE "ended",
                   !.why = IF menu.at = "ex_disconnect" THEN "exit" ELSE @,
                   !.closeall = IF HasEv(Main, "closeall") THEN @ + 1 ELSE @]
    /\ CallOver(Main)
    /\ UNCHANGED <<dbvars, usuario>>

\* the database call of a guarded action
MenuOperation ==
    /\ menu.at = "op_call"
    /\ CASE menu.choice = "schema" -> CallSetSchema(Main)
         [] menu.choice = "info" -> CallGetDatabaseInfo(Main)
         [] menu.choice = "query" ->
                \E stmt \in TypedStmts :
                    Begin(Main, QueryOp(stmt, TRUE, TRUE), "gc_getconn")
         [] OTHER -> Begin(Main, QueryOp("select", TRUE, TRUE), "gc_getconn")

\* _export_table: self.db.export_table(table_name, output_file)
MenuExport ==
    /\ menu.at = "op_call2"
    /\ Begin(Main, [NoOp EXCEPT !.name = "export_table", !.table = menu.arg,
                                !.retries = DefaultRetries, !.delay = DefaultDelay],
             "x_mkdir")

\* the call is over.  _list_tables has no try: its exception goes to
\* _handle_choice; the other actions display it themselves.  _export_table
\* goes on to export_table when the table is listed and the export confirmed.
MenuOperationReturns ==
    /\ menu.at \in {"op_call", "op_call2"}
    /\ pc[Main] = "done"
    /\ \E table \in Tables, yes \in BOOLEAN :
        menu' = [menu EXCEPT
                    !.called = TRUE,
                    !.exc = IF menu.choice = "list_tables" THEN Ret(Main).exc ELSE "none",
                    !.arg = IF menu.choice = "export" /\ menu.at = "op_call" THEN table ELSE @,
                    !.at = IF /\ menu.choice = "export" /\ menu.at = "op_call"
                              /\ Ret(Main).kind = "done"
                              /\ table \in ExistingTables /\ yes
                           THEN "op_call2" ELSE "press_enter"]
    /\ CallOver(Main)
    /\ UNCHANGED <<dbvars, usuario>>

\* _handle_choice: "Press Enter to continue..."; the loop of main_menu
\* prints the menu again
MenuContinues ==
    /\ menu.at = "press_enter"
    /\ menu' = [NoMenu EXCEPT !.at = "main_menu", !.closeall = menu.closeall]
    /\ UNCHANGED <<dbvars, callvars, usuario>>

\* _usuario_menu: an option is chosen and its handler begins; the handlers
\* validate what was typed (ValueError, displayed) before they call the model
UsuarioMenuChoice ==
    /\ menu.at = "usuario_menu"
    /\ \E sub \in SubChoices, typed_ok \in BOOLEAN, data \in MenuCreateData,
          id \in 1..MaxRows :
        /\ sub = "create" /\ typed_ok => db < MaxRows
        /\ IF sub = "back" \/ (sub \in {"create", "list"} /\ ~typed_ok)
           THEN /\ menu' = [menu EXCEPT !.at = "u_return", !.sub = sub,
                                        !.value = ActionValue(sub)]
                /\ UNCHANGED usuario
           ELSE /\ menu' = [menu EXCEPT !.at = "u_wait", !.sub = sub]
                /\ usuario' =
                    CASE sub = "create" -> UsuarioBegin(usuario, "create", data, 1)
                      [] sub = "list" -> UsuarioBegin(usuario, "list_all", NoData, 1)
                      [] OTHER -> UsuarioBegin(usuario, "get_by_id", NoData, id)
    /\ UNCHANGED <<dbvars, callvars>>

\* the method of the model is over: the handler displays the result or the
\* error; _update_usuario and _delete_usuario go on to update or delete
\* when the usuario was found, fields were changed, the deletion confirmed
SubActionReturns ==
    /\ menu.at = "u_wait"
    /\ usuario.at = "done"
    /\ \E data \in MenuUpdateData, yes \in BOOLEAN :
        IF /\ usuario.exc = "none"
           /\ usuario.method = "get_by_id"
           /\ ~usuario.res.none
           /\ \/ menu.sub = "update" /\ data.keys # {}
              \/ menu.sub = "delete" /\ yes
        THEN /\ usuario' = UsuarioBegin(usuario, menu.sub,
                                IF menu.sub = "update" THEN data ELSE NoData,
                                usuario.id)
             /\ UNCHANGED menu
        ELSE /\ usuario' = UsuarioEnd(usuario)
             /\ menu' = [menu EXCEPT !.at = "u_return", !.value = ActionValue(menu.sub)]
    /\ UNCHANGED <<dbvars, callvars>>

\* _usuario_menu: `if action() is None: break`, else the submenu again;
\* after the break _usuario_menu returns to _handle_choice
SubmenuAfterAction ==
    /\ menu.at = "u_return"
    /\ menu' = [menu EXCEPT !.at = IF menu.value = "None" THEN "press_enter"
                                   ELSE "usuario_menu"]
    /\ UNCHANGED <<dbvars, callvars, usuario>>

\* the steps inside the methods of the manager the menus call
StepMenuCalls(c) ==
    \/ StepQuery(c) \/ QExecFails(c)
    \/ CnClosed(c) \/ CnGetconnPooled(c) \/ CnGetconnConnect(c)
    \/ CnGetconnConnectFails(c) \/ CnGetconnExhausted(c) \/ CnPutconn(c)
    \/ SsCheckMissing(c) \/ SExcept(c) \/ SFinally(c)
    \/ XMkdirOk(c) \/ XOpenOk(c) \/ XCopyOk(c) \/ XCommitOk(c)
    \/ XExcept(c) \/ XFinally(c)
    \/ ClosePool(c)

NextMenu ==
    \/ MainStarts \/ MainMenuChoice \/ MainInterrupt \/ MenuContinues
    \/ MenuProbe \/ MenuProbeReturns \/ MenuDisconnect \/ MenuDisconnectReturns
    \/ MenuOperation \/ MenuExport \/ MenuOperationReturns
    \/ UsuarioMenuChoice \/ SubActionReturns \/ SubmenuAfterAction
    \/ UsuarioValidate \/ UsuarioQuery \/ UsuarioQueryReturns
    \/ StepMenuCalls(Main)

SpecMenu == InitThreads /\ [][NextMenu]_vars

\* =========================================================== claims
Done(c, name) == pc[c] = "done" /\ op[c].name = name
Raised(c) == Ret(c).kind = "raise"
Returned(c) == Ret(c).kind = "done"
\* the driver or the file system failed during the call
FaultEvents == {"attempt_failed", "catalog_query_failed", "set_failed",
                "commit_failed", "probe_failed", "io_failed", "getconn_error"}
Faulted(c) == \E i \in DOMAIN trace[c] : trace[c][i].e \in FaultEvents
LeakingOps == {"execute_query", "execute_transaction", "export_table", "set_schema"}

\* C1: after every call of execute_query, execute_transaction, export_table
\* or set_schema on an open pool, returned or raised, as many connections
\* are available as before the call.
C1_NoLeak ==
    \A c \in Callers :
        (pc[c] = "done" /\ op[c].name \in LeakingOps /\ ~pre[c].closed)
            => Available = pre[c].avail

\* C2: when a statement of execute_transaction fails, the call raises
\* RuntimeError and the committed rows are those before the call.
C2_TransactionAtomic ==
    \A c \in Callers :
        (Done(c, "execute_transaction")
         /\ \E i \in DOMAIN trace[c] :
                trace[c][i].e = "execute" /\ StmtFails(trace[c][i].s))
            => /\ Ret(c) = RetRaise("RuntimeError")
               /\ db = pre[c].db

\* a statement before the failing one wrote a row, and the call is over
C2_Witness ==
    /\ Done(1, "execute_transaction")
    /\ op[1].stmts = <<"insert", "bad">>
    /\ CountEv(1, "execute") = 2
    /\ db = pre[1].db


\* ------------------------------------------------------------- C3
IsTxEv(ev) ==
    \/ ev.e = "execute"
    \/ ev.e \in {"commit", "commit_failed", "rollback"} /\ ev.s = "execute_transaction"

FirstFailing(stmts) ==
    IF \E i \in DOMAIN stmts : stmts[i] = "bad"
    THEN CHOOSE i \in DOMAIN stmts :
             stmts[i] = "bad" /\ \A j \in 1..(i - 1) : stmts[j] # "bad"
    ELSE Len(stmts) + 1

ExecutedUpTo(stmts, m) == [i \in 1..m |-> Ev("execute", i, stmts[i])]

\* C3: execute_transaction executes the statements in list order on one
\* connection, with no commit between them and none after the first that
\* fails; it commits once, after the last statement, and returns True only
\* when every statement succeeded.
C3_TransactionOrder ==
    \A c \in Callers :
        Done(c, "execute_transaction") =>
            LET stmts == op[c].stmts
                n == Len(stmts)
                k == FirstFailing(stmts)
                k_conn == loc[c].conn
                E == SelectSeq(trace[c], IsTxEv)
            IN  IF k_conn = NoConn
                THEN E = <<>> /\ Raised(c)
                ELSE /\ CountEv(c, "getconn") = 1
                     /\ IF k <= n
                        THEN /\ E = ExecutedUpTo(stmts, k)
                                    \o <<Ev("rollback", k_conn, "execute_transaction")>>
                             /\ Raised(c)
                        ELSE \/ /\ E = ExecutedUpTo(stmts, n)
                                       \o <<Ev("commit", k_conn, "execute_transaction")>>
                                /\ Ret(c) = RetBool(TRUE)
                             \/ /\ E = ExecutedUpTo(stmts, n)
                                       \o <<Ev("commit_failed", k_conn, "execute_transaction"),
                                            Ev("rollback", k_conn, "execute_transaction")>>
                                /\ Raised(c)

\* a failing statement stood before another one, and a list of two committed
C3_Witness ==
    /\ Done(1, "execute_transaction")
    /\ op[1].stmts = <<"bad", "insert">>
    /\ CountEv(1, "execute") = 1

\* ------------------------------------------------------------- C4
\* C4: whenever execute_query, execute_transaction or export_table is about
\* to execute a statement on its connection, the connection's search path
\* is the manager's current_schema.
C4_SearchPathApplied ==
    \A c \in Callers :
        pc[c] \in {"q_exec", "t_exec", "x_copy"} =>
            /\ conns[loc[c].conn].open
            /\ conns[loc[c].conn].ppath = current_schema

\* the connection was not in the schema when the call began
C4_Witness ==
    /\ pc[1] = "q_exec"
    /\ pre[1].paths[loc[1].conn] # current_schema
    /\ pre[1].cur = "public"

\* ------------------------------------------------------------- C5
MissingSchemaCall(c) == Done(c, "set_schema") /\ op[c].schema \notin ExistingSchemas

\* C5 as stated: set_schema of a schema that does not exist fails, issues
\* no search-path change and leaves current_schema and the connection's
\* search path at the values they had before the call; no user query runs.
C5_AsStated ==
    \A c \in Callers :
        MissingSchemaCall(c) =>
            /\ Raised(c)
            /\ current_schema = pre[c].cur
            /\ ~HasEv(c, "set_path")
            /\ ~HasEv(c, "execute")
            /\ \A k \in ConnIds : conns[k].open => conns[k].ppath = pre[c].paths[k]

\* C5 amended: the call fails (with RuntimeError when pool and driver work),
\* issues no SET for the missing name, leaves current_schema at its prior
\* value and the connection in that recorded schema, which get_connection
\* applied to it at the start of the call; no user query runs.
C5_MissingSchemaRejected ==
    \A c \in Callers :
        MissingSchemaCall(c) =>
            /\ Raised(c)
            /\ HasEv(c, "schema_missing") => Ret(c) = RetRaise("RuntimeError")
            /\ ~Faulted(c) /\ ~pre[c].closed => HasEv(c, "schema_missing")
            /\ current_schema = pre[c].cur
            /\ \A i \in DOMAIN trace[c] :
                   trace[c][i].e = "set_path" => trace[c][i].s = pre[c].cur
            /\ ~HasEv(c, "execute")
            /\ \A k \in ConnIds : conns[k].ppath # op[c].schema
            /\ loc[c].conn # NoConn /\ conns[loc[c].conn].open
                   => conns[loc[c].conn].ppath = pre[c].cur

\* the missing schema was looked up and refused
C5_Witness ==
    /\ MissingSchemaCall(1)
    /\ HasEv(1, "schema_missing")
    /\ pre[1].paths[loc[1].conn] # pre[1].cur
    /\ Ret(1) = RetRaise("RuntimeError")


\* ------------------------------------------------------------- C6
\* set_schema of an existing schema returned True and recorded it, unless
\* the pool or the driver failed during the call; get_database_info
\* reports the recorded schema
C6_SchemaRecorded ==
    \A c \in Callers :
        /\ (Done(c, "set_schema") /\ op[c].schema \in ExistingSchemas) =>
               \/ Ret(c) = RetBool(TRUE) /\ current_schema = op[c].schema
               \/ Raised(c) /\ (Faulted(c) \/ pre[c].closed)
        /\ (Done(c, "get_database_info") /\ Returned(c)) =>
               Ret(c) = RetPair(<<"current_schema">>, <<current_schema>>)

\* current_schema changes only where set_schema records the name it was given
C6_OnlySetSchemaChanges ==
    current_schema' # current_schema =>
        \E c \in Callers :
            /\ op[c].name = "set_schema" /\ pc[c] = "ss_set" /\ loc[c].from = "set"
            /\ current_schema' = op[c].schema
            /\ pc'[c] = "s_finally"

\* C6: a fresh manager has current_schema = SCHEMA_NAME; set_schema of a
\* schema that exists returns True and records it; from then on, until
\* another set_schema, the manager's queries run in it: get_database_info
\* reports it.
C6_SetSchemaTakesEffect ==
    /\ current_schema = SCHEMA_NAME
    /\ []C6_SchemaRecorded
    /\ [][C6_OnlySetSchemaChanges]_vars

\* after a set_schema("public") of an earlier call, get_database_info reports it
C6_Witness ==
    /\ Done(1, "get_database_info")
    /\ pre[1].cur = "public"
    /\ Ret(1) = RetPair(<<"current_schema">>, <<"public">>)

\* ------------------------------------------------------------- C7
AcquireEvents == {"attempt_failed", "sleep", "getconn", "raise_after_attempts"}

C8_StatementSentOnce ==
    \A c \in Callers :
        op[c].name \in {"execute_query", "get_database_info", "execute_transaction"} =>
            \A i \in DOMAIN trace[c] :
                trace[c][i].e = "execute" =>
                    \A j \in (i + 1)..Len(trace[c]) :
                        /\ trace[c][j].e \notin AcquireEvents
                        /\ trace[c][j].e = "execute" =>
                               /\ trace[c][j].n # trace[c][i].n
                               /\ ~StmtFails(trace[c][i].s)

\* the connection was acquired at the second attempt, the statement failed
C8_Witness ==
    /\ Done(1, "execute_query")
    /\ HasEv(1, "attempt_failed")
    /\ \E i \in DOMAIN trace[1] : trace[1][i] = Ev("execute", 1, "bad")
    /\ Ret(1) = RetRaise("RuntimeError")

\* ------------------------------------------------------------- C9
ResultSetStmts == {"select", "insert_returning"}

\* C9: execute_query returns (columns, rows) exactly when fetch is true and
\* the statement has a result set, None otherwise; a result set of zero
\* rows gives the columns and an empty list of rows.
C9_FetchResult ==
    \A c \in Callers :
        (Done(c, "execute_query") /\ Returned(c)) =>
            LET stmt == op[c].stmts[1] IN
                /\ ~Ret(c).none <=> (op[c].fetch /\ stmt \in ResultSetStmts)
                /\ ~Ret(c).none =>
                       /\ Ret(c).cols = <<"id">>
                       /\ stmt = "select" => Ret(c).rows = Rows(pre[c].db)
                       /\ stmt = "insert_returning" => Ret(c).rows = <<pre[c].db + 1>>

\* a SELECT of an empty table returned its column and no row
C9_Witness ==
    /\ Done(1, "execute_query")
    /\ op[1].stmts = <<"select">> /\ op[1].fetch
    /\ pre[1].db = 0
    /\ Ret(1) = RetPair(<<"id">>, <<>>)

\* ------------------------------------------------------------ C10
RowsAfter(stmt, n) ==
    CASE stmt \in {"insert", "insert_returning"} -> n + 1
      [] stmt = "delete" /\ n > 0 -> n - 1
      [] OTHER -> n

IsQueryCommit(ev) == ev.e = "commit" /\ ev.s = "execute_query"

\* C10: an execute_query that returns has committed the statement's effect
\* when autocommit is true, with or without a fetched result, and has
\* issued no commit for it when autocommit is false.
C10_AutocommitCommits ==
    \A c \in Callers :
        (Done(c, "execute_query") /\ Returned(c)) =>
            IF op[c].autocommit
            THEN /\ db = RowsAfter(op[c].stmts[1], pre[c].db)
                 /\ Len(SelectSeq(trace[c], IsQueryCommit)) = 1
                 /\ \E i \in DOMAIN trace[c] :
                        /\ trace[c][i].e = "execute"
                        /\ IsQueryCommit(trace[c][i + 1])
            ELSE /\ SelectSeq(trace[c], IsQueryCommit) = <<>>
                 /\ db = pre[c].db

\* INSERT .. RETURNING with fetch and autocommit: the row is committed
C10_Witness ==
    /\ Done(1, "execute_query")
    /\ op[1].stmts = <<"insert_returning">> /\ op[1].fetch /\ op[1].autocommit
    /\ ~Ret(1).none
    /\ db = pre[1].db + 1

\* ------------------------------------------------------------ C11
\* the statement of the call was executed and the server rejected it
StatementFailed(c) ==
    \E i \in DOMAIN trace[c] :
        trace[c][i].e = "execute" /\ StmtFails(trace[c][i].s)

\* the events of the call after its statement
AfterStatement(c) ==
    LET i == CHOOSE j \in DOMAIN trace[c] : trace[c][j].e = "execute"
    IN  SubSeq(trace[c], i + 1, Len(trace[c]))

\* C11: when the statement of execute_query fails, the connection is rolled
\* back, then put back to the pool, and the caller gets RuntimeError; nothing
\* of the statement is committed and no transaction stays open.
C11_FailedStatementRolledBack ==
    \A c \in Callers :
        (Done(c, "execute_query") /\ StatementFailed(c)) =>
            LET k == loc[c].conn IN
                /\ Ret(c) = RetRaise("RuntimeError")
                /\ AfterStatement(c) = <<Ev("rollback", k, "execute_query"),
                                         Ev("putconn", k, "")>>
                /\ k \notin used
                /\ Available = pre[c].avail
                /\ conns[k].open => conns[k].status = "idle" /\ conns[k].delta = 0
                /\ db = pre[c].db

\* the rejected statement's connection is idle in the pool again
C11_Witness ==
    /\ Done(1, "execute_query")
    /\ op[1].stmts = <<"bad">>
    /\ StatementFailed(1)
    /\ Ret(1) = RetRaise("RuntimeError")
    /\ idle = <<loc[1].conn>>

\* ------------------------------------------------------------ C12
Parts(m) == {m[i] : i \in DOMAIN m}
\* the text of the statement, and of the parameters passed with it
QueryText(stmt) == stmt
ParamsText == "()"

\* C12: the RuntimeError that execute_query raises for a failed statement
\* carries, in its own text or in the error it was raised from, the
\* server's message, the query text and the parameters.
C12_ErrorCarriesContext ==
    \A c \in Callers :
        (Done(c, "execute_query") /\ StatementFailed(c)) =>
            LET carried == Parts(loc[c].msg) \cup Parts(loc[c].cause)
                stmt == op[c].stmts[1]
            IN  /\ ServerMessage(stmt) \in carried
                /\ QueryText(stmt) \in carried
                /\ ParamsText \in carried

\* ------------------------------------------------------------ C13
\* at the evaluation a connection could be checked out: one was idle, or
\* the pool had room and the new connection could be opened
CanCheckOut(c) ==
    \/ pre[c].idle # <<>>
    \/ Cardinality(pre[c].used) < maxconn /\ ~HasEv(c, "probe_failed")

\* the probe of the evaluation: a getconn and the putconn of what it gave
Probed(c) ==
    /\ Len(trace[c]) = 2
    /\ trace[c][1].e = "probe_getconn"
    /\ trace[c][2] = Ev("probe_putconn", trace[c][1].n, "")

\* C13: connected is True exactly when the pool exists, is not closed and
\* the probe of this evaluation checked a connection out and put it back;
\* it is False for a closed pool and for a connection that cannot be
\* opened; an exhausted pool makes the evaluation raise PoolError.  No
\* evaluation changes the number of available connections, and the first
\* evaluation on a fresh manager is True.
C13_ConnectedProbes ==
    \A c \in Callers :
        Done(c, "connected") =>
            /\ Ret(c) = RetBool(TRUE) <=>
                   (connection_pool = "pool" /\ ~pre[c].closed /\ CanCheckOut(c))
            /\ Ret(c) = RetBool(TRUE) => Probed(c)
            /\ Ret(c) = RetBool(FALSE) <=>
                   (pre[c].closed \/ HasEv(c, "probe_failed"))
            /\ Raised(c) => Ret(c) = RetRaise("PoolError") /\ ~CanCheckOut(c)
            /\ Available = pre[c].avail
            /\ (pre[c].idle = <<1>> /\ pre[c].used = {} /\ ~pre[c].closed) =>
                   Ret(c) = RetBool(TRUE)

\* the probe opened a connection, put it back, and answered True
C13_Witness ==
    /\ Done(1, "connected")
    /\ pre[1].idle = <<>>
    /\ Probed(1) /\ trace[1][1].s = "new"
    /\ Ret(1) = RetBool(TRUE)
    /\ Len(idle) = 1

\* ------------------------------------------------------------ C14
\* C14: close_pool never raises and leaves the pool closed with every
\* connection closed; on a pool that is closed already it does nothing:
\* no closeall, and pool, connections, rows and schema stay as they were.
C14_CloseIdempotent ==
    \A c \in Callers :
        Done(c, "close_pool") =>
            /\ Ret(c) = RetNone
            /\ closed
            /\ \A k \in ConnIds : ~conns[k].open
            /\ IF pre[c].closed
               THEN /\ trace[c] = <<>>
                    /\ idle = pre[c].idle /\ used = pre[c].used
                    /\ db = pre[c].db /\ current_schema = pre[c].cur
                    /\ \A k \in ConnIds : conns[k].ppath = pre[c].paths[k]
               ELSE trace[c] = <<Ev("closeall", 0, "")>>

\* a second close_pool, on the pool the first one closed
C14_Witness ==
    /\ Done(1, "close_pool")
    /\ pre[1].closed
    /\ Ret(1) = RetNone
    /\ trace[1] = <<>>

\* ------------------------------------------------------------ C15
\* C15: when a with-block on the manager is left, by its end or by an
\* exception, the pool is closed with all its connections, the manager
\* still refers to the pool, and an exception of the block reaches the
\* caller.
C15_WithClosesPool ==
    \A c \in Callers :
        Done(c, "with") =>
            /\ closed
            /\ \A k \in ConnIds : ~conns[k].open
            /\ connection_pool = "pool"
            /\ Ret(c) = IF HasEv(c, "body_raised") THEN RetRaise("BodyError") ELSE RetNone
            /\ ~pre[c].closed => HasEv(c, "closeall")

\* the block raised on an open pool, and the pool was closed
C15_Witness ==
    /\ Done(1, "with")
    /\ ~pre[1].closed
    /\ trace[1] = <<Ev("body_raised", 0, "BodyError"), Ev("closeall", 0, "")>>
    /\ closed /\ connection_pool = "pool"

\* ------------------------------------------------------------ C16
AcquiringOps == {"get_connection", "execute_query", "get_database_info",
                 "execute_transaction", "export_table"}

\* C16: a call in which get_connection gave up after its last attempt
\* leaves the pool as it was: same idle and checked-out connections, same
\* number available, not closed; and in a call that follows it a checkout
\* that meets no failure succeeds: get_connection returns a connection.
C16_UsableAfterExhaustedRetries ==
    \A c \in Callers :
        /\ (pc[c] = "done" /\ HasEv(c, "raise_after_attempts")) =>
               /\ Raised(c)
               /\ idle = pre[c].idle /\ used = pre[c].used
               /\ Available = pre[c].avail
               /\ ~closed
        /\ (pc[c] = "done" /\ pre[c].after = "acquisition_error"
            /\ op[c].name \in AcquiringOps /\ ~Faulted(c)) =>
               /\ HasEv(c, "getconn")
               /\ loc[c].conn # NoConn
               /\ op[c].name = "get_connection" => Ret(c) = RetConn(loc[c].conn)

\* after a get_connection that gave up, the next one opened a connection
C16_Witness ==
    /\ Done(1, "get_connection")
    /\ pre[1].after = "acquisition_error"
    /\ trace[1][1] = Ev("getconn", loc[1].conn, "new")
    /\ Ret(1) = RetConn(loc[1].conn)

\* ------------------------------------------------------------ C17
\* the connections the pool holds, idle or checked out
PoolSize == Cardinality(used) + Len(idle)

\* caller c has connection k from its checkout and has not put it back
Holds(c, k) ==
    /\ pc[c] \in {"ss_check", "ss_set", "q_exec", "q_commit", "q_except", "q_finally",
                  "t_exec", "t_except", "t_finally", "x_open", "x_copy", "x_commit",
                  "x_except", "x_finally", "s_except", "s_finally", "g_release",
                  "th_put_keep", "th_put_close"}
    /\ k \in {loc[c].conn, loc[c].gconn}
    /\ k # NoConn

\* C17: the pool never holds more than max_connections connections, and no
\* connection is held by two callers at a time, however the callers'
\* steps interleave.
C17_PoolBoundedExclusive ==
    /\ PoolSize <= maxconn
    /\ \A k \in ConnIds : Cardinality({c \in Callers : Holds(c, k)}) <= 1
    /\ \A c \in Callers : \A k \in ConnIds : Holds(c, k) => k \in used

\* ------------------------------------------------------------ C18
\* the call began with max_connections connections checked out
BeganExhausted(c) ==
    /\ ~pre[c].closed
    /\ Cardinality(pre[c].used) = maxconn

\* C18: a call that needs a connection while max_connections are checked
\* out fails at once with an error (PoolError; RuntimeError from
\* export_table, which wraps it), without waiting or retrying; it is given
\* no connection, and the idle and the checked-out connections of the pool
\* are what they were.
C18_ExhaustionFailsClean ==
    \A c \in Callers :
        (pc[c] = "done" /\ BeganExhausted(c)
         /\ op[c].name \in AcquiringOps \cup {"connected", "set_schema"}) =>
            /\ Ret(c) = RetRaise(IF op[c].name = "export_table" THEN "RuntimeError"
                                 ELSE "PoolError")
            /\ loc[c].conn = NoConn /\ loc[c].gconn = NoConn
            /\ ~HasEv(c, "getconn") /\ ~HasEv(c, "probe_getconn")
            /\ ~HasEv(c, "sleep") /\ ~HasEv(c, "attempt_failed")
            /\ idle = pre[c].idle /\ used = pre[c].used
            /\ \A k \in ConnIds : conns[k].open = (k \in used \/ \E i \in DOMAIN idle : idle[i] = k)

\* execute_query on a pool with all its connections checked out
C18_Witness ==
    /\ Done(1, "execute_query")
    /\ BeganExhausted(1)
    /\ trace[1] = <<Ev("getconn_error", 1, "PoolError")>>
    /\ Ret(1) = RetRaise("PoolError")
    /\ Cardinality(used) = maxconn

C20_ExportLines ==
    \A c \in Callers :
        (Done(c, "export_table") /\ Returned(c)) =>
            /\ Len(outfile) = pre[c].db + 1
            /\ outfile[1] = "header"

\* the line breaks in the values of the rows
LineBreaks(rows) == Cardinality({i \in DOMAIN rows : rows[i] = "multiline"})

\* C20 amended: the file holds the header line and one CSV record for each
\* of the N rows; it has N + 1 lines when no value of the table holds a
\* line break, and one line more for every line break in a value.
C20_ExportRecords ==
    \A c \in Callers :
        (Done(c, "export_table") /\ Returned(c)) =>
            LET rows == loc[c].rows IN
                /\ Len(rows) = pre[c].db
                /\ db = pre[c].db
                /\ Len(outfile) >= 1
                /\ outfile[1] = "header"
                /\ Cardinality({i \in DOMAIN outfile :
                                    outfile[i] \in {"row", "row_begin"}}) = pre[c].db
                /\ Len(outfile) = pre[c].db + 1 + LineBreaks(rows)
                /\ LineBreaks(rows) = 0 => Len(outfile) = pre[c].db + 1

\* a table of two rows, one with a line break in a value, was exported
C20_Witness ==
    /\ Done(1, "export_table")
    /\ Returned(1)
    /\ loc[1].rows = <<"plain", "multiline">>
    /\ outfile = <<"header", "row", "row_begin", "row_end">>

\* ------------------------------------------------------------ C21
\* export_table got through: the commit after the copy was done
ExportCompleted(c) ==
    \E i \in DOMAIN trace[c] : trace[c][i].e = "commit" /\ trace[c][i].s = "export_table"

\* the last n events of the call
LastEvents(c, n) ==
    IF Len(trace[c]) < n THEN trace[c]
    ELSE SubSeq(trace[c], Len(trace[c]) - n + 1, Len(trace[c]))

\* C21: an export_table that fails at any place (the parent directory, the
\* acquisition of the connection, opening or writing the file, the copy,
\* the commit) raises RuntimeError; when export_table had its connection,
\* the last things it did were the rollback of that connection and then its
\* return to the pool.
C21_ExportErrorWrapped ==
    \A c \in Callers :
        (Done(c, "export_table") /\ ~ExportCompleted(c)) =>
            /\ Ret(c) = RetRaise("RuntimeError")
            /\ loc[c].conn # NoConn =>
                LET k == loc[c].conn IN
                    /\ LastEvents(c, 2) = <<Ev("rollback", k, "export_table"),
                                            Ev("putconn", k, "")>>
                    /\ k \notin used
                    /\ conns[k].open => conns[k].status = "idle" /\ conns[k].delta = 0

\* writing the file failed while export_table held connection 1
C21_Witness ==
    /\ Done(1, "export_table")
    /\ HasEv(1, "io_failed")
    /\ loc[1].conn = 1
    /\ Ret(1) = RetRaise("RuntimeError")
    /\ LastEvents(1, 3) = <<Ev("io_failed", 0, "x_copy"),
                            Ev("rollback", 1, "export_table"), Ev("putconn", 1, "")>>
    /\ idle = <<1>>

\* ------------------------------------------------------------ C22
\* the places in the call where the SET of _set_schema or its commit failed
ActivationFaults(c) ==
    {i \in DOMAIN trace[c] :
        /\ trace[c][i].e \in {"set_failed", "commit_failed"}
        /\ trace[c][i].s \in Schemas}

\* the search path the connection had when the failing _set_schema began:
\* set_schema calls it after get_connection has applied the recorded schema
PathBeforeActivation(c, k) ==
    IF loc[c].from = "set" THEN pre[c].cur ELSE pre[c].paths[k]

\* C22: when the SET of _set_schema or its commit fails, the next thing done
\* is the rollback of the connection and the call raises; the connection has
\* no pending change, its search path is the one it had before the
\* activation, and current_schema is what it was before the call.
C22_FailedActivationRolledBack ==
    \A c \in Callers :
        (pc[c] = "done" /\ ActivationFaults(c) # {}) =>
            \A i \in ActivationFaults(c) :
                LET k == trace[c][i].n IN
                    /\ Raised(c)
                    /\ i < Len(trace[c])
                    /\ trace[c][i + 1] = Ev("rollback", k, "_set_schema")
                    /\ current_schema = pre[c].cur
                    /\ conns[k].open =>
                        /\ conns[k].ppath = conns[k].path
                        /\ conns[k].path = PathBeforeActivation(c, k)
                        /\ conns[k].status = "idle"

\* set_schema("public") on a manager with schema jec: the commit of the SET
\* failed
C22_Witness ==
    /\ Done(1, "set_schema")
    /\ op[1].schema = "public"
    /\ pre[1].cur = "jec"
    /\ HasEv(1, "commit_failed")
    /\ loc[1].from = "set"
    /\ Ret(1) = RetRaise("RuntimeError")
    /\ current_schema = "jec"
    /\ conns[1].open /\ conns[1].path = "jec" /\ conns[1].ppath = "jec"

\* ------------------------------------------------------------ C23
\* C23: with callers interleaving on one manager, when set_schema(S2) of
\* the schema caller has returned True (and no set_schema was called
\* since: only that caller calls it), current_schema is S2, whatever the
\* other callers' get_connection calls do.
C23_RecordedSchemaStable ==
    (Done(SchemaCaller, "set_schema") /\ Ret(SchemaCaller) = RetBool(TRUE))
        => current_schema = op[SchemaCaller].schema

\* ------------------------------------------------------------ C29
\* failures of an attempt that are no OperationalError or InterfaceError:
\* PoolError of getconn(), DatabaseError of _set_schema
NotRetriedEvents ==
    {"getconn_error", "schema_missing", "catalog_query_failed", "set_failed",
     "commit_failed"}

\* the error get_connection is left with after the event
NotRetriedError(ev) == IF ev.e = "getconn_error" THEN ev.s ELSE "DatabaseError"

\* is the event a failure inside get_connection (commit_failed is also the
\* event of a method's own commit)
InAcquisition(c, i) ==
    /\ trace[c][i].e \in NotRetriedEvents
    /\ \A j \in 1..(i - 1) : trace[c][j].e \notin {"execute", "commit_failed"}
    /\ trace[c][i].e = "commit_failed" => trace[c][i].s \in Schemas

\* C29: get_connection waits and tries again only after an attempt that
\* raised OperationalError; after a PoolError of getconn() (pool exhausted
\* or closed) or a DatabaseError of _set_schema (schema missing, schema
\* change failed) nothing more is tried and nothing is waited for, and
\* get_connection raises that error.
C29_RetryOnlyOperationalError ==
    \A c \in Callers :
        op[c].name \in AcquiringOps =>
            LET t == trace[c] IN
                /\ \A i \in DOMAIN t :
                       t[i].e = "sleep" =>
                           /\ i > 1
                           /\ t[i - 1].e = "attempt_failed"
                           /\ t[i - 1].s = "OperationalError"
                /\ \A i \in DOMAIN t :
                       InAcquisition(c, i) =>
                           /\ \A j \in (i + 1)..Len(t) :
                                  t[j].e \notin AcquireEvents \cup NotRetriedEvents
                           /\ pc[c] \notin {"gc_getconn", "gc_failed", "ss_check", "ss_set"}
                           /\ Done(c, "get_connection") =>
                                  Ret(c) = RetRaise(NotRetriedError(t[i]))

\* the first attempt could not connect and was retried; the second met a
\* failing catalog query and was the last
C29_Witness ==
    /\ Done(1, "get_connection")
    /\ op[1].retries = 3
    /\ CountEv(1, "attempt_failed") = 1
    /\ CountEv(1, "sleep") = 1
    /\ HasEv(1, "catalog_query_failed")
    /\ Ret(1) = RetRaise("DatabaseError")

\* ------------------------------------------------------------ C30
\* what a call does when it reaches a connection or the server
DatabaseEvents ==
    {"getconn", "probe_getconn", "execute", "commit", "set_path", "rollback",
     "putconn", "probe_putconn", "attempt_failed", "sleep", "closeall"}

\* what each method answers on a closed pool
ClosedPoolAnswer(name) ==
    CASE name \in {"connected", "connect"} -> RetBool(FALSE)
      [] name = "set_schema" -> RetRaise("ConnectionError")
      [] name = "export_table" -> RetRaise("RuntimeError")
      [] name \in {"close_pool", "disconnect", "with"} -> RetNone
      [] OTHER -> RetRaise("PoolError")

\* C30: a call that begins after close_pool reaches no connection and no
\* server: connected and connect() are False and the pool is not created
\* again, set_schema raises ConnectionError, execute_query,
\* execute_transaction and export_table raise without a statement; the pool
\* stays closed and the rows are what they were.
C30_ClosedPoolUnreachable ==
    \A c \in Callers :
        (pre[c].closed /\ op[c].name # "none") =>
            /\ closed
            /\ connection_pool = "pool" /\ ctor.attempts = 1
            /\ \A i \in DOMAIN trace[c] : trace[c][i].e \notin DatabaseEvents
            /\ \A k \in ConnIds : ~conns[k].open
            /\ db = pre[c].db
            /\ idle = pre[c].idle /\ used = pre[c].used
            /\ current_schema = pre[c].cur
            /\ (pc[c] = "done" /\ ~HasEv(c, "body_raised")) =>
                   Ret(c) = ClosedPoolAnswer(op[c].name)

\* execute_query on a closed pool
C30_Witness ==
    /\ Done(1, "execute_query")
    /\ pre[1].closed
    /\ trace[1] = <<Ev("getconn_error", 1, "PoolError")>>
    /\ Ret(1) = RetRaise("PoolError")

\* ------------------------------------------------------------ C27
\* the data create must reject: a required field is missing, or tipo is
\* none of the four types
CreateDataInvalid(data) ==
    \/ \E f \in {"cpf", "nome_completo", "email", "senha", "tipo"} : f \notin data.keys
    \/ data.tipo \notin {"servidor", "juiz", "advogado", "parte"}

\* the data update must reject: empty, or with a tipo that is none of the
\* four types
UpdateDataInvalid(data) ==
    \/ data.keys = {}
    \/ "tipo" \in data.keys /\ data.tipo \notin {"servidor", "juiz", "advogado", "parte"}

\* C27: create and update test their data before they reach the database:
\* with invalid data the method raises ValueError and execute_query is not
\* called, no connection is taken and the rows stay as they were.
C27_ValidationBeforeDatabase ==
    (usuario.at \in {"query", "done"} /\ usuario.method \in {"create", "update"}
     /\ IF usuario.method = "create" THEN CreateDataInvalid(usuario.data)
        ELSE UpdateDataInvalid(usuario.data)) =>
        /\ usuario.at = "done"
        /\ usuario.exc = "ValueError"
        /\ usuario.calls = 0
        /\ pc[Main] = "idle" /\ trace[Main] = <<>>

\* create without cpf was rejected
C27_Witness ==
    /\ usuario.at = "done"
    /\ usuario.method = "create"
    /\ usuario.data = [keys |-> {"nome_completo", "email", "senha", "tipo"},
                       tipo |-> "parte"]
    /\ usuario.exc = "ValueError"
    /\ usuario.calls = 0

\* ------------------------------------------------------------ C28
\* C28: the table a Usuario object names is the usuarios table of the
\* schema the manager had when the object was made: table_name never
\* changes, and every statement the object sends names that table,
\* whatever set_schema has made of current_schema since.
C28_TableNameFixed ==
    usuario.at # "absent" =>
        /\ usuario.table_name = TableName(usuario.created_in)
        /\ usuario.calls > 0 => usuario.target = TableName(usuario.created_in)
        /\ (usuario.at = "query" /\ pc[Main] # "idle") =>
               op[Main].table = TableName(usuario.created_in)

\* the object was made under jec, set_schema has moved the manager to
\* public, and a statement of the object went to jec.usuarios
C28_Witness ==
    /\ usuario.at = "done"
    /\ usuario.created_in = "jec"
    /\ current_schema = "public"
    /\ usuario.calls = 1
    /\ usuario.exc = "none"
    /\ usuario.target = "jec.usuarios"

\* main_menu() has been left: main() is in its finally or over
LoopLeft == menu.at \in {"fin_probe", "fin_disconnect", "ended"}

\* C24: an ordinary exception that leaves an action of the main menu is
\* displayed and the loop goes on (the exception is held only at "Press
\* Enter to continue", never outside the loop); the loop is left only by
\* Exit or by KeyboardInterrupt; and when the program has ended after Exit,
\* close_all_connections has run exactly once.
C24_LoopEndsByExitPoolClosedOnce ==
    /\ (menu.exc # "none" /\ ~LoopLeft) => menu.at = "press_enter"
    /\ LoopLeft => menu.why \in {"exit", "interrupt"}
    /\ (menu.at = "ended" /\ menu.why = "exit") => menu.closeall = 1

\* C25: the Usuario Management submenu has returned to the main menu (its
\* caller _handle_choice is at "Press Enter to continue") only if the
\* option chosen last in the submenu was "Back to Main Menu".
C25_SubmenuLeftOnlyByBack ==
    (menu.at = "press_enter" /\ menu.choice = "usuario") => menu.sub = "back"

\* C26: a guarded operation is at its database call only if the last
\* evaluation of connected / connect() in its guard answered True, and an
\* operation that ended without reaching its database call was aborted by
\* RuntimeError("Operation requires database connection").
C26_GuardedCallConnected ==
    /\ (menu.at = "op_call" /\ menu.choice \in Guarded) => menu.probe = "True"
    /\ (menu.at = "press_enter" /\ menu.choice \in Guarded /\ ~menu.called)
           => menu.exc = "RuntimeError"

====
